---- MODULE Spec2Model ----
(***************************************************************************)
(* Model of the notebook application: the document/vector store of         *)
(* document_processor.py, the backend-output handling of LLMService, the   *)
(* concept mastery update and the quiz session flow of the Streamlit app.  *)
(***************************************************************************)
EXTENDS Integers, Sequences, FiniteSets, TLC

VARIABLES
    documents,        \* rows of table documents
    chunks,           \* rows of table chunks
    concepts,         \* rows of table concepts
    seq,              \* sqlite_sequence: last AUTOINCREMENT id per table
    files,            \* upload directory: path -> file content
    ollama_status,    \* st.session_state.ollama_status
    quiz_mode,        \* st.session_state.quiz_mode
    selected_concept, \* st.session_state.selected_concept
    current_quiz,     \* st.session_state.current_quiz
    current_question, \* st.session_state.current_question
    quiz_answers,     \* st.session_state.quiz_answers
    quiz_feedback,    \* st.session_state.quiz_feedback
    calls,            \* process_document calls in progress, one per session
    last              \* history: the last call, its arguments and its result

dbVars == <<documents, chunks, concepts, seq, files, calls>>
sessionVars == <<ollama_status, quiz_mode, selected_concept, current_quiz,
                 current_question, quiz_answers, quiz_feedback>>
vars == <<documents, chunks, concepts, seq, files, ollama_status, quiz_mode,
          selected_concept, current_quiz, current_question, quiz_answers,
          quiz_feedback, calls, last>>

(***************************************************************************)
(* Bounds.                                                                 *)
(***************************************************************************)
MaxTextLen == 4      \* backend texts: every token sequence up to this length
MaxDocId == 2        \* cap on the documents AUTOINCREMENT counter
MaxContent == 2      \* byte contents 0..MaxContent (0 is whitespace only)
MaxAnswers == 4      \* size of a quiz_answers dict handed to the mastery update
MaxConceptId == 2    \* cap on the concepts AUTOINCREMENT counter (library)
MaxTopK == 2         \* top_k of a search ranges over 0..MaxTopK

(***************************************************************************)
(* Generic helpers.                                                        *)
(***************************************************************************)
Min(a, b) == IF a < b THEN a ELSE b

Max(a, b) == IF a > b THEN a ELSE b

RECURSIVE SeqsUpTo(_, _)
SeqsUpTo(S, n) ==
    IF n = 0 THEN {<<>>}
    ELSE LET shorter == SeqsUpTo(S, n - 1)
         IN  shorter \cup {Append(s, x) : s \in shorter, x \in S}

(***************************************************************************)
(* Backend text.  A text is a sequence of lexemes.  Punctuation lexemes    *)
(* are the JSON structural characters, a member of StringTokens stands for *)
(* the JSON string literal with that content, a member of NumberTokens for *)
(* a JSON number, "null" for the literal null and a ProseTokens member for *)
(* a word of free text outside any JSON.                                   *)
(***************************************************************************)
StringTokens == {"questions", "concepts", "main", "sub", "description",
                 "question", "type", "options", "correct", "explanation",
                 "multiple_choice", "text", "s", "m1", "m2", "s1", "s2",
                 "o0", "o1", "correct_answer", "A", "Paris", "London", "Berlin",
                 "Madrid"}

NumberTokens == {"0", "1"}

ProseTokens == {"Error", "words"}

NumVal(tok) == IF tok = "0" THEN 0 ELSE 1

(***************************************************************************)
(* JSON values as json.loads builds them: t is the Python type, s the      *)
(* payload of a str or number, items the elements of a list or the         *)
(* key/value members of a dict in source order.                            *)
(***************************************************************************)
JStr(s) == [t |-> "str", s |-> s, items |-> <<>>]

JNum(s) == [t |-> "int", s |-> s, items |-> <<>>]

JNone == [t |-> "NoneType", s |-> "", items |-> <<>>]

JList(items) == [t |-> "list", s |-> "", items |-> items]

JDict(members) == [t |-> "dict", s |-> "", items |-> members]

ParseFail == [ok |-> FALSE, val |-> JNone, next |-> 0]

RECURSIVE ParseValue(_, _)
RECURSIVE ParseMembers(_, _, _)
RECURSIVE ParseElements(_, _, _)

\* json.loads, the value grammar: string | number | null | object | array
ParseValue(toks, i) ==
    IF i > Len(toks) THEN ParseFail
    ELSE LET tok == toks[i] IN
         IF tok \in StringTokens THEN [ok |-> TRUE, val |-> JStr(tok), next |-> i + 1]
         ELSE IF tok \in NumberTokens THEN [ok |-> TRUE, val |-> JNum(tok), next |-> i + 1]
         ELSE IF tok = "null" THEN [ok |-> TRUE, val |-> JNone, next |-> i + 1]
         ELSE IF tok = "{" THEN
              IF i + 1 <= Len(toks) /\ toks[i + 1] = "}"
              THEN [ok |-> TRUE, val |-> JDict(<<>>), next |-> i + 2]
              ELSE ParseMembers(toks, i + 1, <<>>)
         ELSE IF tok = "[" THEN
              IF i + 1 <= Len(toks) /\ toks[i + 1] = "]"
              THEN [ok |-> TRUE, val |-> JList(<<>>), next |-> i + 2]
              ELSE ParseElements(toks, i + 1, <<>>)
         ELSE ParseFail

\* json.loads, the members of an object after "{" or ",": "key" : value
ParseMembers(toks, i, acc) ==
    IF i + 1 > Len(toks) \/ toks[i] \notin StringTokens \/ toks[i + 1] # ":"
    THEN ParseFail
    ELSE LET r == ParseValue(toks, i + 2) IN
         IF ~r.ok \/ r.next > Len(toks) THEN ParseFail
         ELSE LET members == Append(acc, [k |-> toks[i], v |-> r.val]) IN
              IF toks[r.next] = "," THEN ParseMembers(toks, r.next + 1, members)
              ELSE IF toks[r.next] = "}"
                   THEN [ok |-> TRUE, val |-> JDict(members), next |-> r.next + 1]
                   ELSE ParseFail

\* json.loads, the elements of an array after "[" or ","
ParseElements(toks, i, acc) ==
    LET r == ParseValue(toks, i) IN
    IF ~r.ok \/ r.next > Len(toks) THEN ParseFail
    ELSE LET elems == Append(acc, r.val) IN
         IF toks[r.next] = "," THEN ParseElements(toks, r.next + 1, elems)
         ELSE IF toks[r.next] = "]"
              THEN [ok |-> TRUE, val |-> JList(elems), next |-> r.next + 1]
              ELSE ParseFail

\* json.loads(text): one value spanning the whole text, else JSONDecodeError
json_loads(toks) ==
    LET r == ParseValue(toks, 1) IN
    IF r.ok /\ r.next = Len(toks) + 1 THEN [ok |-> TRUE, val |-> r.val]
    ELSE [ok |-> FALSE, val |-> JNone]

\* dict.get(key, default): the last member with that key wins in a Python dict
DictGet(d, key, default) ==
    LET hits == {i \in 1..Len(d.items) : d.items[i].k = key} IN
    IF hits = {} THEN default
    ELSE d.items[CHOOSE i \in hits : \A j \in hits : j <= i].v

DictHas(d, key) == \E i \in 1..Len(d.items) : d.items[i].k = key

\* re.search(r'\{.*\}', response, re.DOTALL): greedy, first "{" to last "}"
re_search(response) ==
    LET opens == {i \in 1..Len(response) : response[i] = "{"}
        closes == {i \in 1..Len(response) : response[i] = "}"}
    IN  IF opens = {} \/ closes = {} THEN [found |-> FALSE, group |-> <<>>]
        ELSE LET first == CHOOSE i \in opens : \A j \in opens : i <= j
                 lst == CHOOSE i \in closes : \A j \in closes : j <= i
             IN  IF lst > first
                 THEN [found |-> TRUE, group |-> SubSeq(response, first, lst)]
                 ELSE [found |-> FALSE, group |-> <<>>]

(***************************************************************************)
(* LLMService.  The generation backend either answers with a text or the   *)
(* request fails (connection error, timeout, bad status).                  *)
(***************************************************************************)
BackendText(text) == [kind |-> "text", text |-> text]

BackendFailure == [kind |-> "failure", text |-> <<>>]

\* "Error: Unable to connect to Ollama. ..." / "Error: <exception>"
ErrorMessage == <<"Error", ":", "words">>

\* every exception of the request is caught and turned into a message
_make_request(backend) ==
    IF backend.kind = "text" THEN backend.text ELSE ErrorMessage

Returned(value) == [raised |-> FALSE, value |-> value]

Raised == [raised |-> TRUE, value |-> JNone]

FallbackQuestion ==
    JDict(<< [k |-> "question", v |-> JStr("What is the main topic discussed in this text?")],
             [k |-> "type", v |-> JStr("text")],
             [k |-> "correct_answer", v |-> JStr("This is a text-based question about the content.")],
             [k |-> "explanation",
              v |-> JStr("The answer should relate to the main concepts discussed in the provided text.")] >>)

\* one identical text question per chunk, at most num_questions of them
_create_fallback_questions(doc_chunks, num_questions) ==
    JList([i \in 1..Max(0, Min(num_questions, Len(doc_chunks))) |-> FallbackQuestion])

\* chunk[:100]; the chunk texts of the model are shorter than 100 characters
First100(chunk_text) == chunk_text

\* a single concept built from the first chunk
_create_fallback_concepts(doc_chunks) ==
    IF doc_chunks = <<>> THEN JList(<<>>)
    ELSE JList(<< JDict(<< [k |-> "main", v |-> JStr("Document Content")],
                           [k |-> "sub", v |-> JStr("Key Topics")],
                           [k |-> "description",
                            v |-> JStr("Main topics from the document: "
                                       \o First100(doc_chunks[1]) \o "...")] >>) >>)

generate_quiz_questions(document_chunks, mastery_level, num_questions, backend) ==
    IF document_chunks = <<>> THEN Returned(JList(<<>>))
    ELSE LET response == _make_request(backend)
             json_match == re_search(response)
         IN  IF json_match.found
             THEN LET quiz_data == json_loads(json_match.group) IN
                  IF ~quiz_data.ok                     \* except json.JSONDecodeError
                  THEN Returned(_create_fallback_questions(document_chunks, num_questions))
                  ELSE IF quiz_data.val.t # "dict"     \* .get of a non-dict: AttributeError
                  THEN Raised
                  ELSE Returned(DictGet(quiz_data.val, "questions", JList(<<>>)))
             ELSE Returned(_create_fallback_questions(document_chunks, num_questions))

extract_concepts(document_chunks, backend) ==
    IF document_chunks = <<>> THEN Returned(JList(<<>>))
    ELSE LET response == _make_request(backend)
             json_match == re_search(response)
         IN  IF json_match.found
             THEN LET concept_data == json_loads(json_match.group) IN
                  IF ~concept_data.ok                  \* except json.JSONDecodeError
                  THEN Returned(_create_fallback_concepts(document_chunks))
                  ELSE IF concept_data.val.t # "dict"  \* .get of a non-dict: AttributeError
                  THEN Raised
                  ELSE Returned(DictGet(concept_data.val, "concepts", JList(<<>>)))
             ELSE Returned(_create_fallback_concepts(document_chunks))

(***************************************************************************)
(* DocumentProcessor.  A file name is a stem and a suffix; the upload      *)
(* directory maps every path to the content of the file stored there.      *)
(* Byte content c extracts to a text of c chunks; content 0 is whitespace. *)
(***************************************************************************)
Stems == {"a", "b"}

SupportedSuffixes == {".txt", ".md"}

Suffixes == SupportedSuffixes \cup {".pkl"}

Filenames == [stem : Stems, suffix : Suffixes]

Contents == 0..MaxContent

NoFile == [kind |-> "absent"]

RawFile(file_content) == [kind |-> "bytes", data |-> file_content]

PickleFile(chunk_texts, embeddings) ==
    [kind |-> "pickle", chunks |-> chunk_texts, embeddings |-> embeddings]

\* the database and upload directory as one value
DB == [documents |-> documents, chunks |-> chunks, concepts |-> concepts,
       seq |-> seq, files |-> files]

\* hashlib.sha256(file_content).hexdigest()
_calculate_file_hash(file_content) == "sha256:" \o ToString(file_content)

\* len(file_content)
FileSize(file_content) == file_content + 1

\* file_path.with_suffix('.pkl')
with_suffix(path, suffix) == [stem |-> path.stem, suffix |-> suffix]

\* text of the file at file_path: plain for .txt, converted to HTML for .md
extract_text(file_path, fs) ==
    [form |-> IF file_path.suffix = ".md" THEN "html" ELSE "plain",
     data |-> fs[file_path].data]

\* RecursiveCharacterTextSplitter.split_text
split_text(text) ==
    [i \in 1..text.data |-> text.form \o ToString(text.data) \o "#" \o ToString(i - 1)]

\* SentenceTransformer.encode: one vector per chunk
encode(chunk_texts) == [i \in 1..Len(chunk_texts) |-> "vec(" \o chunk_texts[i] \o ")"]

Failure(message) == [success |-> FALSE, message |-> message]

\* save_file: the upload is written under upload_dir / filename
save_file(fs, file_content, filename) == [fs EXCEPT ![filename] = RawFile(file_content)]

\* the row SELECT ... fetchone() returns: the first in rowid order
FirstRow(rows) == CHOOSE r \in rows : \A o \in rows : r.id <= o.id

\* variant: the lookup only considers rows still in status 'uploaded'
ExistingDocsUploadedOnly(db, file_hash) ==
    {d \in db.documents : d.file_hash = file_hash /\ d.status = "uploaded"}

\* SELECT * FROM documents WHERE file_hash = ?
ExistingDocs(db, file_hash) == {d \in db.documents : d.file_hash = file_hash}

\* variant: the stored row is renamed to the name of the new upload
AlreadyExistsRenames(db, existing_doc, filename) ==
    [db |-> [db EXCEPT !.documents =
                {IF d.id = existing_doc.id THEN [d EXCEPT !.filename = filename] ELSE d
                 : d \in @}],
     result |-> [success |-> TRUE, document_id |-> existing_doc.id,
                 status |-> "already_exists"]]

\* if existing_doc: the connection is closed and the stored id is returned
AlreadyExists(db, existing_doc, filename) ==
    [db |-> db,
     result |-> [success |-> TRUE, document_id |-> existing_doc.id,
                 status |-> "already_exists"]]

\* variant: no text counts as blank
IsBlankNever(text) == FALSE

\* text.strip() is empty
IsBlank(text) == text.data = 0

\* INSERT INTO documents, INSERT INTO chunks per chunk, commit; the INSERT of
\* a filename that is already stored raises IntegrityError (the except
\* returns the failure, the connection is dropped with nothing committed)
InsertDocument(db, file_content, filename, chunk_texts) ==
    IF \E d \in db.documents : d.filename = filename   \* filename TEXT UNIQUE
    THEN [db |-> db, result |-> Failure("Error processing")]
    ELSE
    LET document_id == db.seq.documents + 1
        doc == [id |-> document_id, filename |-> filename,
                file_hash |-> _calculate_file_hash(file_content),
                file_path |-> filename, file_size |-> FileSize(file_content),
                vector_path |-> with_suffix(filename, ".pkl"),
                chunk_count |-> Len(chunk_texts),
                status |-> "processed"]
        rows == {[id |-> db.seq.chunks + i, document_id |-> document_id,
                  chunk_index |-> i - 1, chunk_text |-> chunk_texts[i]]
                 : i \in 1..Len(chunk_texts)}
    IN [db |-> [db EXCEPT !.documents = @ \cup {doc},
                          !.chunks = @ \cup rows,
                          !.seq = [@ EXCEPT !.documents = document_id,
                                            !.chunks = @ + Len(chunk_texts)]],
        result |-> [success |-> TRUE, document_id |-> document_id,
                    chunk_count |-> Len(chunk_texts), status |-> "processed",
                    chunks |-> chunk_texts]]

process_document(db, file_content, filename) ==
    LET file_hash == _calculate_file_hash(file_content)
        existing == ExistingDocs(db, file_hash)
    IN
    IF existing # {}
    THEN AlreadyExists(db, FirstRow(existing), filename)
    ELSE
    LET saved == save_file(db.files, file_content, filename) IN
    IF filename.suffix \notin SupportedSuffixes        \* extract_text raises ValueError
    THEN [db |-> [db EXCEPT !.files = saved], result |-> Failure("Error processing")]
    ELSE
    LET text == extract_text(filename, saved) IN
    IF IsBlank(text)
    THEN [db |-> [db EXCEPT !.files = saved], result |-> Failure("Could not extract text")]
    ELSE
    LET chunk_texts == split_text(text)
        embeddings == encode(chunk_texts)
        vector_path == with_suffix(filename, ".pkl")
        written == [saved EXCEPT ![vector_path] = PickleFile(chunk_texts, embeddings)]
    IN
    InsertDocument([db EXCEPT !.files = written], file_content, filename, chunk_texts)

\* os.remove(path) when the file exists; the removal itself may fail
RemoveFile(fs, path, fails) ==
    IF fs[path] # NoFile /\ ~fails THEN [fs EXCEPT ![path] = NoFile] ELSE fs

\* variant: the lookup ignores the id and takes any stored document
DocInfoAny(db, document_id) == db.documents

\* SELECT filename, file_path, vector_path FROM documents WHERE id = ?
DocInfo(db, document_id) == {d \in db.documents : d.id = document_id}

\* variant: the chunk rows of the document are left behind
DeleteRowsKeepsChunks(db, document_id) ==
    [db EXCEPT !.documents = {d \in @ : d.id # document_id},
               !.concepts = {c \in @ : c.document_id # document_id}]

\* DELETE FROM chunks, concepts WHERE document_id = ?; DELETE FROM documents
\* WHERE id = ?; commit
DeleteRows(db, document_id) ==
    [db EXCEPT !.documents = {d \in @ : d.id # document_id},
               !.chunks = {c \in @ : c.document_id # document_id},
               !.concepts = {c \in @ : c.document_id # document_id}]

\* variant: the files are removed inside the transaction and a failed removal
\* rolls the deletion back
delete_documentAbortsOnFileError(db, document_id, main_fails, vector_fails) ==
    LET doc_info == DocInfo(db, document_id) IN
    IF doc_info = {}
    THEN [db |-> db, result |-> Failure("not found")]
    ELSE
    LET doc == FirstRow(doc_info)
        main_removed == RemoveFile(db.files, doc.file_path, main_fails)
        vector_removed == RemoveFile(main_removed, doc.vector_path, vector_fails)
    IN  IF \/ main_fails /\ db.files[doc.file_path] # NoFile
           \/ vector_fails /\ main_removed[doc.vector_path] # NoFile
        THEN [db |-> [db EXCEPT !.files = vector_removed],
              result |-> Failure("Error deleting document")]
        ELSE [db |-> [DeleteRows(db, document_id) EXCEPT !.files = vector_removed],
              result |-> [success |-> TRUE, filename |-> doc.filename,
                          chunks_deleted |-> Cardinality({c \in db.chunks : c.document_id = document_id}),
                          concepts_deleted |-> Cardinality({c \in db.concepts : c.document_id = document_id})]]

delete_document(db, document_id, main_fails, vector_fails) ==
    LET doc_info == DocInfo(db, document_id) IN
    IF doc_info = {}
    THEN [db |-> db, result |-> Failure("not found")]
    ELSE
    LET doc == FirstRow(doc_info)
        chunks_deleted == {c \in db.chunks : c.document_id = document_id}
        concepts_deleted == {c \in db.concepts : c.document_id = document_id}
        committed == DeleteRows(db, document_id)
        main_removed == RemoveFile(committed.files, doc.file_path, main_fails)
        vector_removed == RemoveFile(main_removed, doc.vector_path, vector_fails)
    IN [db |-> [committed EXCEPT !.files = vector_removed],
        result |-> [success |-> TRUE, filename |-> doc.filename,
                    chunks_deleted |-> Cardinality(chunks_deleted),
                    concepts_deleted |-> Cardinality(concepts_deleted)]]

(***************************************************************************)
(* Concepts.                                                               *)
(***************************************************************************)
\* Python truthiness of a value: "not value" holds for None, empty, zero
Falsy(v) ==
    \/ v.t = "NoneType"
    \/ v.t \in {"list", "dict"} /\ v.items = <<>>
    \/ v.t = "str" /\ v.s = ""
    \/ v.t = "int" /\ v.s = "0"

\* a list element the INSERT of extract_and_store_concepts accepts: a dict
\* with "main" and "sub" bound to text (NOT NULL) and a storable description
Storable(concept) ==
    /\ concept.t = "dict"
    /\ DictHas(concept, "main") /\ DictGet(concept, "main", JNone).t \in {"str", "int"}
    /\ DictHas(concept, "sub") /\ DictGet(concept, "sub", JNone).t \in {"str", "int"}
    /\ DictGet(concept, "description", JStr("")).t \in {"str", "int", "NoneType"}

extract_and_store_concepts(db, chunk_texts, backend, document_id) ==
    LET extracted == extract_concepts(chunk_texts, backend) IN
    IF extracted.raised                                \* except Exception: return []
    THEN [db |-> db, result |-> <<>>]
    ELSE
    LET extracted_concepts == extracted.value IN
    IF Falsy(extracted_concepts)
    THEN [db |-> db, result |-> <<>>]
    ELSE IF \/ extracted_concepts.t # "list"           \* iteration or indexing raises:
            \/ \E i \in 1..Len(extracted_concepts.items) :   \* nothing is committed
                   ~Storable(extracted_concepts.items[i])
    THEN [db |-> db, result |-> <<>>]
    ELSE
    LET n == Len(extracted_concepts.items)
        stored_concepts ==
            [i \in 1..n |->
                [id |-> db.seq.concepts + i,
                 document_id |-> document_id,
                 main |-> DictGet(extracted_concepts.items[i], "main", JNone).s,
                 sub |-> DictGet(extracted_concepts.items[i], "sub", JNone).s,
                 description |-> DictGet(extracted_concepts.items[i], "description", JStr("")).s,
                 mastery_level |-> 0,
                 progress |-> 0]]
    IN [db |-> [db EXCEPT !.concepts = @ \cup {stored_concepts[i] : i \in 1..n},
                          !.seq.concepts = @ + n],
        result |-> stored_concepts]

\* collation order of the labels that can be stored (ORDER BY on TEXT)
LabelOrder == <<"0", "1", "Document Content", "Key Topics", "concepts", "correct",
                "description", "explanation", "m1", "m2", "main", "multiple_choice",
                "o0", "o1", "options", "question", "questions", "s", "s1", "s2",
                "sub", "text", "type">>

Rank(label) == CHOOSE i \in 1..Len(LabelOrder) : LabelOrder[i] = label

\* ORDER BY main_concept, sub_concept
Before(c, d) ==
    \/ Rank(c.main) < Rank(d.main)
    \/ c.main = d.main /\ Rank(c.sub) < Rank(d.sub)

\* get_concepts: the rows with a document id, ordered by (main, sub); rows
\* equal in both labels come in an order SQL leaves open
get_concepts(db) ==
    LET rows == {c \in db.concepts : c.document_id # 0}
        perms == {s \in [1..Cardinality(rows) -> rows] :
                     /\ \A i, j \in DOMAIN s : i # j => s[i] # s[j]
                     /\ \A i, j \in DOMAIN s : i < j => ~Before(s[j], s[i])}
    IN  perms

IsTrue(answer) == answer.t = "bool" /\ answer.s = "True"

\* variant: the UPDATE selects by the main label of the concept, not by its id
update_concept_masteryByLabel(db, concept_id, mastery_level, progress) ==
    [db EXCEPT !.concepts =
        {IF \E p \in @ : p.id = concept_id /\ p.main = c.main
         THEN [c EXCEPT !.mastery_level = mastery_level, !.progress = progress]
         ELSE c : c \in @}]

\* update_concept_mastery: UPDATE concepts SET mastery_level, progress WHERE id
update_concept_mastery(db, concept_id, mastery_level, progress) ==
    [db EXCEPT !.concepts =
        {IF c.id = concept_id
         THEN [c EXCEPT !.mastery_level = mastery_level, !.progress = progress]
         ELSE c : c \in @}]

\* variant: the level-up keeps the progress of the old level
AllCorrectUpdateKeepsProgress(concept) ==
    IF concept.mastery_level < 3
    THEN [mastery_level |-> concept.mastery_level + 1, progress |-> concept.progress]
    ELSE [mastery_level |-> concept.mastery_level,
          progress |-> Min(300, concept.progress + 50)]

\* variant: the top-level bonus is not capped
AllCorrectUpdateNoCap(concept) ==
    IF concept.mastery_level < 3
    THEN [mastery_level |-> concept.mastery_level + 1, progress |-> 0]
    ELSE [mastery_level |-> concept.mastery_level,
          progress |-> concept.progress + 50]

\* all answers correct: level up with progress reset, or +50 at the top level
AllCorrectUpdate(concept) ==
    IF concept.mastery_level < 3
    THEN [mastery_level |-> concept.mastery_level + 1, progress |-> 0]
    ELSE [mastery_level |-> concept.mastery_level,
          progress |-> Min(300, concept.progress + 50)]

\* variant: a good session earns the bonus of a perfect one
GoodUpdateFullBonus(concept) ==
    [mastery_level |-> concept.mastery_level,
     progress |-> Min(300, concept.progress + 50)]

\* variant: the progress of a good session is not capped
GoodUpdateNoCap(concept) ==
    [mastery_level |-> concept.mastery_level,
     progress |-> concept.progress + 25]

\* 70% or better
GoodUpdate(concept) ==
    [mastery_level |-> concept.mastery_level,
     progress |-> Min(300, concept.progress + 25)]

\* variant: the decay is not floored
PoorUpdateNoFloor(concept) ==
    [mastery_level |-> concept.mastery_level,
     progress |-> concept.progress - 10]

\* variant: a poor session with no progress left drops a level
PoorUpdateDemotes(concept) ==
    IF concept.progress = 0 /\ concept.mastery_level > 0
    THEN [mastery_level |-> concept.mastery_level - 1, progress |-> 0]
    ELSE [mastery_level |-> concept.mastery_level,
          progress |-> Max(0, concept.progress - 10)]

\* poor performance
PoorUpdate(concept) ==
    [mastery_level |-> concept.mastery_level,
     progress |-> Max(0, concept.progress - 10)]

\* len(quiz_answers)
TotalQuestions(answers) == Cardinality(DOMAIN answers)

\* sum(1 for answer in quiz_answers.values() if answer is True)
CorrectAnswers(answers) ==
    Cardinality({q \in DOMAIN answers : IsTrue(answers[q])})

\* the level and progress the update computes for one concept;
\* correct >= total * 0.7 is decided exactly by 10 * correct >= 7 * total
NewMastery(concept, answers) ==
    LET total_questions == TotalQuestions(answers)
        correct_answers == CorrectAnswers(answers)
    IN  IF correct_answers = total_questions THEN AllCorrectUpdate(concept)
        ELSE IF 10 * correct_answers >= 7 * total_questions THEN GoodUpdate(concept)
        ELSE PoorUpdate(concept)

\* _update_concept_mastery over the listing stored_concepts of get_concepts:
\* the first concept whose main label is concept_name is updated
_update_concept_mastery(db, stored_concepts, concept_name, answers) ==
    LET matches == {i \in DOMAIN stored_concepts : stored_concepts[i].main = concept_name} IN
    IF matches = {} THEN db
    ELSE LET concept == stored_concepts[CHOOSE i \in matches : \A j \in matches : i <= j]
             new == NewMastery(concept, answers)
         IN  update_concept_mastery(db, concept.id, new.mastery_level, new.progress)

(***************************************************************************)
(* Inputs.                                                                 *)
(***************************************************************************)
RECURSIVE Join(_)
\* the token sequences of parts separated by commas
Join(parts) ==
    IF parts = <<>> THEN <<>>
    ELSE IF Len(parts) = 1 THEN parts[1]
    ELSE parts[1] \o <<",">> \o Join(Tail(parts))

Object(members) == <<"{">> \o Join(members) \o <<"}">>

Array(elements) == <<"[">> \o Join(elements) \o <<"]">>

Member(key, value) == <<key, ":">> \o value

ConceptText(main, sub) == Object(<<Member("main", <<main>>), Member("sub", <<sub>>)>>)

ConceptsResponse(value) == Object(<<Member("concepts", value)>>)

\* responses to the concept extraction prompt that name one main concept
SingleMainResponses ==
    { ConceptsResponse(Array(<<>>)),
      ConceptsResponse(Array(<<ConceptText("m1", "s2")>>)),
      ConceptsResponse(Array(<<ConceptText("m1", "s2"), ConceptText("m1", "s1")>>)),
      <<"words">> }

\* responses to the concept extraction prompt
ConceptResponses ==
    SingleMainResponses \cup
    { ConceptsResponse(<<"null">>),
      ConceptsResponse(Array(<<ConceptText("m2", "s1"), ConceptText("m1", "s1")>>)),
      ConceptsResponse(Array(<<ConceptText("m1", "s1"), Object(<<Member("main", <<"m2">>)>>)>>)),
      <<"words">> \o ConceptsResponse(Array(<<ConceptText("m2", "s2")>>)) \o <<"words">>,
      ConceptsResponse(<<"[">> \o ConceptText("m1", "s1") \o <<",", "]">>),
      Object(<<Member("questions", Array(<<>>))>>) }

QuestionText(type, options, correct) ==
    Object(<<Member("question", <<"s">>), Member("type", <<type>>)>>
           \o (IF options = <<>> THEN <<>> ELSE <<Member("options", Array(options))>>)
           \o (IF correct = <<>> THEN <<>> ELSE <<Member("correct", correct)>>))

QuestionsResponse(value) == Object(<<Member("questions", value)>>)

TwoOptions == << <<"o0">>, <<"o1">> >>

\* responses to the quiz generation prompt
QuizResponses ==
    { QuestionsResponse(Array(<<>>)),
      QuestionsResponse(<<"null">>),
      QuestionsResponse(<<"1">>),
      QuestionsResponse(Array(<<QuestionText("multiple_choice", TwoOptions, <<"1">>)>>)),
      QuestionsResponse(Array(<<QuestionText("multiple_choice", TwoOptions, <<"0">>),
                                QuestionText("multiple_choice", TwoOptions, <<>>)>>)),
      QuestionsResponse(Array(<<QuestionText("multiple_choice", TwoOptions, <<"s">>),
                                QuestionText("text", <<>>, <<>>)>>)),
      <<"words">> \o QuestionsResponse(Array(<<QuestionText("multiple_choice", TwoOptions, <<"1">>)>>)),
      QuestionsResponse(<<"[">> \o QuestionText("multiple_choice", TwoOptions, <<"1">>) \o <<",", "]">>),
      Object(<<Member("concepts", Array(<<>>))>>),
      <<"words">> }

\* a multiple_choice question whose answer is named by its letter
LetterResponses ==
    { QuestionsResponse(Array(<<
          Object(<<Member("question", <<"s">>),
                   Member("type", <<"multiple_choice">>),
                   Member("options", Array(<< <<"Paris">>, <<"London">>,
                                              <<"Berlin">>, <<"Madrid">> >>)),
                   Member("correct_answer", <<"A">>)>>)>>)) }

\* lexemes of the exhaustively enumerated short texts
Alphabet == {"{", "}", "[", "]", ",", ":", "questions", "concepts", "s", "null", "words"}

BackendTexts ==
    SeqsUpTo(Alphabet, MaxTextLen) \cup ConceptResponses \cup QuizResponses
        \cup LetterResponses

Backends(texts) == {BackendFailure} \cup {BackendText(text) : text \in texts}

\* chunk lists handed to the generators: none, or the chunks of some document
ChunkLists ==
    {<<>>} \cup {split_text([form |-> f, data |-> d]) : f \in {"plain", "html"}, d \in 1..MaxContent}

NumQuestions == {0, 1, 3}

PyBool(b) == [t |-> "bool", s |-> IF b THEN "True" ELSE "False", items |-> <<>>]

PyInt(i) == JNum(ToString(i))

None == "<None>"

NoQuiz == [none |-> TRUE]

\* the sessions whose process_document calls may overlap
Workers == {"w1", "w2"}

\* no call in progress
Idle == [pc |-> "idle", file_content |-> 0,
         filename |-> [stem |-> "", suffix |-> ""], data |-> 0]

(***************************************************************************)
(* Initial state: a fresh database and upload directory, a new session.    *)
(***************************************************************************)
InitDB ==
    /\ documents = {}
    /\ chunks = {}
    /\ concepts = {}
    /\ seq = [documents |-> 0, chunks |-> 0, concepts |-> 0]
    /\ files = [p \in Filenames |-> NoFile]
    /\ calls = [w \in Workers |-> Idle]

InitSession ==
    /\ quiz_mode = FALSE
    /\ selected_concept = None
    /\ current_quiz = NoQuiz
    /\ current_question = 0
    /\ quiz_answers = <<>>
    /\ quiz_feedback = None
    /\ last = [op |-> "init"]

\* a DocumentProcessor on its own: no backend connection is involved
InitStore == InitDB /\ InitSession /\ ollama_status = FALSE

\* the application: the session records whether the backend answered at start
InitApp == InitDB /\ InitSession /\ ollama_status \in BOOLEAN

\* the tables and the upload directory after a step
SetTables(db) ==
    /\ documents' = db.documents
    /\ chunks' = db.chunks
    /\ concepts' = db.concepts
    /\ seq' = db.seq
    /\ files' = db.files

\* a call that runs from start to end with no other call in between
SetDB(db) == SetTables(db) /\ UNCHANGED calls

(***************************************************************************)
(* The operations of DocumentProcessor as calls.                           *)
(***************************************************************************)
\* what the previous call was, as far as a following process_document sees it
Prior ==
    IF last.op = "process_document"
    THEN [op |-> last.op, file_content |-> last.file_content,
          status |-> IF last.result.success THEN last.result.status ELSE "failed",
          document_id |-> IF last.result.success THEN last.result.document_id ELSE 0]
    ELSE [op |-> last.op, file_content |-> 0, status |-> "", document_id |-> 0]

ProcessDocument(file_content, filename) ==
    LET r == process_document(DB, file_content, filename) IN
    /\ r.db.seq.documents <= MaxDocId
    /\ SetDB(r.db)
    /\ last' = [op |-> "process_document", file_content |-> file_content,
                filename |-> filename, result |-> r.result, prior |-> Prior]
    /\ UNCHANGED sessionVars

DeleteDocument(document_id, main_fails, vector_fails) ==
    LET r == delete_document(DB, document_id, main_fails, vector_fails) IN
    /\ SetDB(r.db)
    /\ last' = [op |-> "delete_document", document_id |-> document_id, result |-> r.result]
    /\ UNCHANGED sessionVars

(***************************************************************************)
(* The document store under arbitrary calls of its operations.             *)
(***************************************************************************)
\* the names uploaded: two supported formats sharing a stem, one unsupported
StoreFilenames == [stem : {"a"}, suffix : Suffixes]

NextStore ==
    \/ \E file_content \in Contents, filename \in StoreFilenames :
           ProcessDocument(file_content, filename)
    \/ \E document_id \in 1..MaxDocId, main_fails \in BOOLEAN, vector_fails \in BOOLEAN :
           DeleteDocument(document_id, main_fails, vector_fails)

SpecStore == InitStore /\ [][NextStore]_vars

(***************************************************************************)
(* The library: the document store together with concept extraction, each  *)
(* operation called directly and in any order.                             *)
(***************************************************************************)
ExtractAndStoreConcepts(chunk_texts, backend, document_id) ==
    LET r == extract_and_store_concepts(DB, chunk_texts, backend, document_id) IN
    /\ r.db.seq.concepts <= MaxConceptId
    /\ SetDB(r.db)
    /\ last' = [op |-> "extract_and_store_concepts", document_id |-> document_id,
                stored |-> Len(r.result)]
    /\ UNCHANGED sessionVars

\* the uploads of the library: one name, in every byte content
LibraryFilenames == [stem : {"a"}, suffix : {".txt"}]

\* what the backend answers to the extraction prompt: one concept or none
LibraryBackends ==
    {BackendText(ConceptsResponse(Array(<<ConceptText("m1", "s1")>>))),
     BackendText(ConceptsResponse(Array(<<>>)))}

NextLibrary ==
    \/ \E file_content \in Contents, filename \in LibraryFilenames :
           ProcessDocument(file_content, filename)
    \/ \E backend \in LibraryBackends, document_id \in 1..MaxDocId :
           ExtractAndStoreConcepts(<<"plain1#0">>, backend, document_id)
    \/ \E document_id \in 1..MaxDocId, main_fails \in BOOLEAN, vector_fails \in BOOLEAN :
           DeleteDocument(document_id, main_fails, vector_fails)

SpecLibrary == InitStore /\ [][NextLibrary]_vars

(***************************************************************************)
(* The application's handlers.                                             *)
(***************************************************************************)
\* the upload loop body: process_document, then concept extraction for a
\* newly processed document when the backend is connected (the display-only
\* upload_status log is left out)
UploadFile(file_content, filename, backend) ==
    LET r == process_document(DB, file_content, filename)
        extracts == /\ r.result.success
                    /\ r.result.status # "already_exists"
                    /\ ollama_status
        e == extract_and_store_concepts(r.db, r.result.chunks, backend, r.result.document_id)
    IN
    /\ r.db.seq.documents <= MaxDocId
    /\ SetDB(IF extracts THEN e.db ELSE r.db)
    /\ last' = [op |-> "upload", file_content |-> file_content, filename |-> filename,
                result |-> r.result]
    /\ UNCHANGED sessionVars

NoConcept == [id |-> 0, mastery_level |-> 0, progress |-> 0]

\* the concept the update picks in the listing, as (id, level, progress)
Picked(stored_concepts, concept_name) ==
    LET matches == {i \in DOMAIN stored_concepts : stored_concepts[i].main = concept_name} IN
    IF matches = {} THEN NoConcept
    ELSE LET concept == stored_concepts[CHOOSE i \in matches : \A j \in matches : i <= j]
         IN  [id |-> concept.id, mastery_level |-> concept.mastery_level,
              progress |-> concept.progress]

\* the lines _update_concept_mastery prints: the score and the outcome, both
\* inside the branch of the matching concept
PrintedLines(stored_concepts, concept_name) ==
    IF \E i \in DOMAIN stored_concepts : stored_concepts[i].main = concept_name
    THEN <<"Quiz performance", "outcome">>
    ELSE <<>>

\* _update_concept_mastery(concept_name, quiz_answers) called on its own; the
\* function has no return statement
UpdateConceptMastery(concept_name, answers) ==
    \E stored_concepts \in get_concepts(DB) :
        /\ SetDB(_update_concept_mastery(DB, stored_concepts, concept_name, answers))
        /\ last' = [op |-> "_update_concept_mastery", concept_name |-> concept_name,
                    quiz_answers |-> answers,
                    before |-> Picked(stored_concepts, concept_name),
                    returned |-> None,
                    printed |-> PrintedLines(stored_concepts, concept_name)]
        /\ UNCHANGED sessionVars

AnswerDicts == UNION {[0..(n - 1) -> {PyBool(TRUE), PyBool(FALSE)}] : n \in 0..MaxAnswers}

ConceptNames == {"m1", "Document Content"}

TextFile == [stem |-> "a", suffix |-> ".txt"]

(***************************************************************************)
(* The concept ledger: one document is uploaded, its concepts are          *)
(* extracted and quiz results are recorded against them.                   *)
(***************************************************************************)
NextMastery ==
    \/ \E backend \in Backends(SingleMainResponses) : UploadFile(1, TextFile, backend)
    \/ \E concept_name \in ConceptNames, answers \in AnswerDicts :
           UpdateConceptMastery(concept_name, answers)

SpecMastery == InitApp /\ [][NextMastery]_vars

(***************************************************************************)
(* The quiz session flow of the application (one action per button).       *)
(***************************************************************************)
RECURSIVE SortedRows(_, _)
\* the rows in ascending order of key(row), rowid breaking ties
SortedRows(rows, key) ==
    IF rows = {} THEN <<>>
    ELSE LET r == CHOOSE x \in rows : \A y \in rows :
                      key[x] < key[y] \/ (key[x] = key[y] /\ x.id <= y.id)
         IN  <<r>> \o SortedRows(rows \ {r}, key)

\* get_document_chunks: the chunk texts of a document ORDER BY chunk_index
get_document_chunks(db, document_id) ==
    LET selected == {c \in db.chunks : c.document_id = document_id}
        rows == SortedRows(selected, [c \in selected |-> c.chunk_index])
    IN  [i \in 1..Len(rows) |-> rows[i].chunk_text]

\* get_documents: ORDER BY upload_date DESC, the latest upload first
get_documents(db) ==
    SortedRows(db.documents, [d \in db.documents |-> 0 - d.id])

RECURSIVE Flatten(_)
Flatten(lists) == IF lists = <<>> THEN <<>> ELSE Head(lists) \o Flatten(Tail(lists))

\* all_chunks of the Generate Questions handler
AllChunks(db) ==
    LET docs == get_documents(db)
    IN  Flatten([i \in 1..Len(docs) |-> get_document_chunks(db, docs[i].id)])

\* "Quiz" button (chat mode)
QuizButton ==
    /\ ~quiz_mode
    /\ quiz_mode' = TRUE
    /\ selected_concept' = None
    /\ current_quiz' = NoQuiz
    /\ current_question' = 0
    /\ quiz_answers' = <<>>
    /\ quiz_feedback' = None
    /\ last' = [op |-> "quiz_button"]
    /\ UNCHANGED <<dbVars, ollama_status>>

\* variant: leaving a quiz evaluates the answers given so far
AbandonedEvaluates(db, quiz, answers) ==
    IF quiz = NoQuiz THEN db
    ELSE _update_concept_mastery(db, CHOOSE stored_concepts \in get_concepts(db) : TRUE,
                                 quiz.concept, answers)

\* what "Back to Chat" does to the tables: the handler only resets the
\* session state
Abandoned(db, quiz, answers) == db

\* "Back to Chat" button (quiz mode)
BackToChat ==
    /\ quiz_mode
    /\ SetDB(Abandoned(DB, current_quiz, quiz_answers))
    /\ quiz_mode' = FALSE
    /\ selected_concept' = None
    /\ current_quiz' = NoQuiz
    /\ current_question' = 0
    /\ quiz_answers' = <<>>
    /\ quiz_feedback' = None
    /\ last' = [op |-> "back_to_chat", abandoned |-> current_quiz # NoQuiz,
                answered |-> Cardinality(DOMAIN quiz_answers)]
    /\ UNCHANGED ollama_status

\* "Start Quiz" button: a main concept of the ledger is selected
StartQuiz(concept_name) ==
    /\ quiz_mode
    /\ selected_concept = None
    /\ \E c \in concepts : c.document_id # 0 /\ c.main = concept_name
    /\ selected_concept' = concept_name
    /\ last' = [op |-> "start_quiz"]
    /\ UNCHANGED <<dbVars, ollama_status, quiz_mode, current_quiz, current_question,
                   quiz_answers, quiz_feedback>>

\* "Cancel Quiz" button, offered when there is no concept
CancelQuiz ==
    /\ quiz_mode
    /\ selected_concept = None
    /\ ~\E c \in concepts : c.document_id # 0
    /\ quiz_mode' = FALSE
    /\ last' = [op |-> "cancel_quiz"]
    /\ UNCHANGED <<dbVars, ollama_status, selected_concept, current_quiz,
                   current_question, quiz_answers, quiz_feedback>>

\* "Generate Questions" button
GenerateQuestions(backend) ==
    /\ quiz_mode
    /\ selected_concept # None
    /\ current_quiz = NoQuiz
    /\ \E stored_concepts \in get_concepts(DB) :
         LET concept_mastery == Picked(stored_concepts, selected_concept).mastery_level
             all_chunks == AllChunks(DB)
             questions == generate_quiz_questions(all_chunks, concept_mastery + 1, 3, backend)
             accepted == /\ all_chunks # <<>>
                         /\ ollama_status
                         /\ ~questions.raised
                         /\ ~Falsy(questions.value)
         IN  /\ current_quiz' = IF accepted
                                THEN [questions |-> questions.value,
                                      concept |-> selected_concept,
                                      mastery_level |-> concept_mastery]
                                ELSE current_quiz
             /\ current_question' = IF accepted THEN 0 ELSE current_question
             /\ quiz_answers' = IF accepted THEN <<>> ELSE quiz_answers
             /\ quiz_feedback' = IF accepted THEN None ELSE quiz_feedback
             /\ last' = [op |-> "generate_questions", accepted |-> accepted]
    /\ UNCHANGED <<dbVars, ollama_status, quiz_mode, selected_concept>>

\* the script reaches the question display: the quiz holds a list whose
\* current element is a dict with "question" and "type"
QuestionShown ==
    /\ quiz_mode
    /\ selected_concept # None
    /\ current_quiz # NoQuiz
    /\ current_quiz.questions.t = "list"
    /\ current_question < Len(current_quiz.questions.items)
    /\ current_quiz.questions.items[current_question + 1].t = "dict"
    /\ DictHas(current_quiz.questions.items[current_question + 1], "question")
    /\ DictHas(current_quiz.questions.items[current_question + 1], "type")

CurrentQ == current_quiz.questions.items[current_question + 1]

\* an option button of the current question
SelectOption(i) ==
    /\ QuestionShown
    /\ DictGet(CurrentQ, "type", JNone) \in {JStr("multiple_choice"), JStr("recall")}
    /\ DictHas(CurrentQ, "options")
    /\ DictGet(CurrentQ, "options", JNone).t = "list"
    /\ i \in 0..(Len(DictGet(CurrentQ, "options", JNone).items) - 1)
    /\ LET correct_index == DictGet(CurrentQ, "correct", JNum("0"))
           is_correct == correct_index.t = "int" /\ NumVal(correct_index.s) = i
       IN  /\ quiz_answers' = [q \in DOMAIN quiz_answers \cup {current_question} |->
                                  IF q = current_question THEN PyInt(i) ELSE quiz_answers[q]]
           \* correct_index < len(options) raises for a non-number: no feedback is set
           /\ quiz_feedback' = IF correct_index.t # "int" THEN quiz_feedback
                               ELSE IF is_correct THEN "True" ELSE "False"
    /\ last' = [op |-> "select_option"]
    /\ UNCHANGED <<dbVars, ollama_status, quiz_mode, selected_concept, current_quiz,
                   current_question>>

\* "Next Question" button, offered once feedback is shown; past the last
\* question the quiz is complete and the mastery update runs
NextQuestion ==
    /\ QuestionShown
    /\ quiz_feedback # None
    /\ current_question' = current_question + 1
    /\ quiz_feedback' = None
    /\ IF current_question + 1 >= Len(current_quiz.questions.items)
       THEN \E stored_concepts \in get_concepts(DB) :
              /\ SetDB(_update_concept_mastery(DB, stored_concepts, current_quiz.concept,
                                               quiz_answers))
              /\ quiz_mode' = FALSE
              /\ current_quiz' = NoQuiz
              /\ selected_concept' = None
              /\ last' = [op |-> "next_question", completed |-> TRUE,
                          concept |-> current_quiz.concept,
                          questions |-> current_quiz.questions.items,
                          before |-> Picked(stored_concepts, current_quiz.concept)]
       ELSE /\ UNCHANGED <<dbVars, quiz_mode, current_quiz, selected_concept>>
            /\ last' = [op |-> "next_question", completed |-> FALSE]
    /\ UNCHANGED <<ollama_status, quiz_answers>>

NextQuiz ==
    \/ \E backend \in Backends(SingleMainResponses) : UploadFile(1, TextFile, backend)
    \/ QuizButton
    \/ BackToChat
    \/ \E concept_name \in ConceptNames : StartQuiz(concept_name)
    \/ CancelQuiz
    \/ \E backend \in Backends(QuizResponses) : GenerateQuestions(backend)
    \/ \E i \in 0..1 : SelectOption(i)
    \/ NextQuestion

SpecQuiz == InitApp /\ [][NextQuiz]_vars

(***************************************************************************)
(* The generators of LLMService applied to one backend outcome: the        *)
(* initial state holds the arguments of the call and the outcome of the    *)
(* request, the actions are the two generators.                            *)
(***************************************************************************)
ParserChunkLists ==
    {<<>>, split_text([form |-> "plain", data |-> 1]), split_text([form |-> "plain", data |-> 2])}

InitParser ==
    /\ InitDB
    /\ ollama_status = TRUE
    /\ quiz_mode = FALSE
    /\ selected_concept = None
    /\ current_quiz = NoQuiz
    /\ current_question = 0
    /\ quiz_answers = <<>>
    /\ quiz_feedback = None
    /\ \E document_chunks \in ParserChunkLists, num_questions \in NumQuestions,
          backend \in Backends(BackendTexts) :
           last = [op |-> "request", document_chunks |-> document_chunks,
                   num_questions |-> num_questions, backend |-> backend,
                   result |-> Returned(JNone)]

GenerateQuizQuestions ==
    /\ last' = [last EXCEPT !.op = "generate_quiz_questions",
                            !.result = generate_quiz_questions(last.document_chunks, 1,
                                           last.num_questions, last.backend)]
    /\ UNCHANGED <<dbVars, sessionVars>>

ExtractConcepts ==
    /\ last' = [last EXCEPT !.op = "extract_concepts",
                            !.result = extract_concepts(last.document_chunks, last.backend)]
    /\ UNCHANGED <<dbVars, sessionVars>>

NextParser == GenerateQuizQuestions \/ ExtractConcepts

SpecParser == InitParser /\ [][NextParser]_vars

(***************************************************************************)
(* Overlapping calls.  Every session holds its own DocumentProcessor over   *)
(* the same database file and upload directory, so the process_document    *)
(* calls of two sessions interleave statement by statement.  Each call     *)
(* works on a connection of its own: what it inserts is visible to others  *)
(* at its commit, and the inserts up to the commit take no time against    *)
(* the other steps.  Readers look at the committed tables and the files.   *)
(***************************************************************************)
\* a file opened with mode 'wb' that has not been written yet
TruncatedFile == [kind |-> "truncated"]

\* the call of worker w goes on as call
Proceed(w, call) ==
    /\ calls' = [calls EXCEPT ![w] = call]
    /\ last' = [op |-> "process_document", returned |-> FALSE]

\* the call of worker w returns result
Return(w, result) ==
    /\ calls' = [calls EXCEPT ![w] = Idle]
    /\ last' = [op |-> "process_document", returned |-> TRUE, result |-> result]

\* getbuffer, hash, SELECT ... WHERE file_hash = ?, if existing_doc
BeginProcess(w, file_content, filename) ==
    LET existing == ExistingDocs(DB, _calculate_file_hash(file_content)) IN
    /\ calls[w].pc = "idle"
    /\ IF existing # {}
       THEN Return(w, AlreadyExists(DB, FirstRow(existing), filename).result)
       ELSE Proceed(w, [pc |-> "looked_up", file_content |-> file_content,
                        filename |-> filename, data |-> 0])
    /\ UNCHANGED <<documents, chunks, concepts, seq, files, sessionVars>>

\* save_file
SaveUpload(w) ==
    /\ calls[w].pc = "looked_up"
    /\ files' = save_file(files, calls[w].file_content, calls[w].filename)
    /\ Proceed(w, [calls[w] EXCEPT !.pc = "saved"])
    /\ UNCHANGED <<documents, chunks, concepts, seq, sessionVars>>

\* extract_text reads the file now stored at file_path, then strip, split_text
\* and encode
ExtractAndEncode(w) ==
    /\ calls[w].pc = "saved"
    /\ IF calls[w].filename.suffix \notin SupportedSuffixes
       THEN Return(w, Failure("Error processing"))
       ELSE LET text == extract_text(calls[w].filename, files) IN
            IF IsBlank(text)
            THEN Return(w, Failure("Could not extract text"))
            ELSE Proceed(w, [calls[w] EXCEPT !.pc = "encoded", !.data = text.data])
    /\ UNCHANGED <<documents, chunks, concepts, seq, files, sessionVars>>

\* the text the call extracted
ExtractedText(call) ==
    [form |-> IF call.filename.suffix = ".md" THEN "html" ELSE "plain", data |-> call.data]

\* open(vector_path, 'wb')
OpenVectorFile(w) ==
    /\ calls[w].pc = "encoded"
    /\ files' = [files EXCEPT ![with_suffix(calls[w].filename, ".pkl")] = TruncatedFile]
    /\ Proceed(w, [calls[w] EXCEPT !.pc = "opened"])
    /\ UNCHANGED <<documents, chunks, concepts, seq, sessionVars>>

\* pickle.dump(chunk_data, f) and close
DumpVectors(w) ==
    LET chunk_texts == split_text(ExtractedText(calls[w])) IN
    /\ calls[w].pc = "opened"
    /\ files' = [files EXCEPT ![with_suffix(calls[w].filename, ".pkl")] =
                     PickleFile(chunk_texts, encode(chunk_texts))]
    /\ Proceed(w, [calls[w] EXCEPT !.pc = "dumped"])
    /\ UNCHANGED <<documents, chunks, concepts, seq, sessionVars>>

\* the INSERTs and the commit, or the IntegrityError
InsertAndCommit(w) ==
    LET r == InsertDocument(DB, calls[w].file_content, calls[w].filename,
                            split_text(ExtractedText(calls[w])))
    IN
    /\ calls[w].pc = "dumped"
    /\ r.db.seq.documents <= MaxDocId
    /\ SetTables(r.db)
    /\ Return(w, r.result)
    /\ UNCHANGED sessionVars

\* some process_document call is between its first and its last statement
InProgress == \E w \in Workers : calls[w].pc # "idle"

\* get_documents
GetDocuments ==
    /\ last' = [op |-> "get_documents", in_progress |-> InProgress,
                seen |-> {[document_id |-> d.id, chunk_count |-> d.chunk_count]
                          : d \in documents}]
    /\ UNCHANGED <<dbVars, sessionVars>>

\* get_document_chunks(document_id)
GetDocumentChunks(document_id) ==
    /\ last' = [op |-> "get_document_chunks", in_progress |-> InProgress,
                document_id |-> document_id,
                chunk_texts |-> get_document_chunks(DB, document_id)]
    /\ UNCHANGED <<dbVars, sessionVars>>

\* what pickle.load yields for a file: nothing but a complete pickle loads
Loadable(file) == file.kind = "pickle"

\* search_documents: every listed document whose vector file exists has it
\* loaded; a file that does not unpickle raises out of the call
SearchDocuments ==
    LET listed == {d \in documents : files[d.vector_path] # NoFile} IN
    /\ last' = [op |-> "search_documents", in_progress |-> InProgress,
                raised |-> \E d \in listed : ~Loadable(files[d.vector_path]),
                seen |-> {[document_id |-> d.id, chunk_count |-> d.chunk_count,
                           chunk_texts |-> get_document_chunks(DB, d.id),
                           chunk_data |-> files[d.vector_path]]
                          : d \in {l \in listed : Loadable(files[l.vector_path])}}]
    /\ UNCHANGED <<dbVars, sessionVars>>

\* the names uploaded by the sessions: the two supported formats of one stem
SessionFilenames == [stem : {"a"}, suffix : SupportedSuffixes]

NextSessions ==
    \/ \E w \in Workers, file_content \in Contents, filename \in SessionFilenames :
           BeginProcess(w, file_content, filename)
    \/ \E w \in Workers : SaveUpload(w)
    \/ \E w \in Workers : ExtractAndEncode(w)
    \/ \E w \in Workers : OpenVectorFile(w)
    \/ \E w \in Workers : DumpVectors(w)
    \/ \E w \in Workers : InsertAndCommit(w)
    \/ GetDocuments
    \/ \E document_id \in 1..MaxDocId : GetDocumentChunks(document_id)
    \/ SearchDocuments

SpecSessions == InitStore /\ [][NextSessions]_vars

(***************************************************************************)
(* Search.  A similarity is kept in tenths (3 stands for 0.3).  The query   *)
(* embedding is known by the dot product it has with every stored vector:   *)
(* a query is a function from stored vectors to similarities.               *)
(***************************************************************************)
\* the threshold 0.3, in tenths
ThresholdTenths == 3

\* the similarities a stored vector can have with a query, in tenths
SimTenths == {3, 4, 5, 6}

\* variant: the threshold itself counts as relevant
RelevantInclusive(similarity) == similarity >= ThresholdTenths

\* if similarities[idx] > 0.3
Relevant(similarity) == similarity > ThresholdTenths

\* variant: every position of the document is taken, in stored order
TopIndicesAllChunks(similarities, top_k) ==
    {[i \in 1..Len(similarities) |-> i]}

\* np.argsort(similarities)[-top_k:][::-1]: the positions of the top_k highest
\* similarities, highest first (all positions for top_k = 0, as [-0:] is the
\* whole array); argsort leaves the order of equal similarities open
TopIndices(similarities, top_k) ==
    LET n == Len(similarities)
        k == IF top_k = 0 THEN n ELSE Min(top_k, n)
    IN  {s \in [1..k -> 1..n] :
            /\ \A i, j \in 1..k : i # j => s[i] # s[j]
            /\ \A i, j \in 1..k : i < j => similarities[s[i]] >= similarities[s[j]]
            /\ \A i \in 1..k : \A o \in 1..n :
                   (\A j \in 1..k : s[j] # o) => similarities[o] <= similarities[s[i]]}

\* np.dot(chunk_data['embeddings'], query_embedding.T).flatten()
Similarities(chunk_data, query) ==
    [i \in 1..Len(chunk_data.embeddings) |-> query[chunk_data.embeddings[i]]]

RECURSIVE KeepRelevant(_)
\* the entries whose similarity passes the threshold, in order
KeepRelevant(entries) ==
    IF entries = <<>> THEN <<>>
    ELSE IF Relevant(Head(entries).similarity)
         THEN <<Head(entries)>> \o KeepRelevant(Tail(entries))
         ELSE KeepRelevant(Tail(entries))

\* the entries one document adds to results, one list per way argsort may
\* order equal similarities
DocumentResults(doc, chunk_data, query, top_k) ==
    LET similarities == Similarities(chunk_data, query) IN
    {KeepRelevant([i \in 1..Len(top_indices) |->
                      [document_id |-> doc.id,
                       document_name |-> doc.filename,
                       chunk_index |-> top_indices[i] - 1,
                       chunk_text |-> chunk_data.chunks[top_indices[i]],
                       similarity |-> similarities[top_indices[i]]]])
     : top_indices \in TopIndices(similarities, top_k)}

\* variant: the per-document lists are returned one after the other
SortBySimilarityKeepsOrder(results) == results

RECURSIVE SortBySimilarityAscending(_)
\* variant: the sort is ascending (reverse=True left out)
SortBySimilarityAscending(results) ==
    IF results = <<>> THEN <<>>
    ELSE LET first == CHOOSE i \in 1..Len(results) :
                          /\ \A j \in 1..Len(results) :
                                 results[j].similarity >= results[i].similarity
                          /\ \A j \in 1..(i - 1) :
                                 results[j].similarity > results[i].similarity
         IN  <<results[first]>>
             \o SortBySimilarityAscending(SubSeq(results, 1, first - 1)
                                          \o SubSeq(results, first + 1, Len(results)))

RECURSIVE SortBySimilarity(_)
\* results.sort(key=lambda x: x['similarity'], reverse=True): stable
SortBySimilarity(results) ==
    IF results = <<>> THEN <<>>
    ELSE LET first == CHOOSE i \in 1..Len(results) :
                          /\ \A j \in 1..Len(results) :
                                 results[j].similarity <= results[i].similarity
                          /\ \A j \in 1..(i - 1) :
                                 results[j].similarity < results[i].similarity
         IN  <<results[first]>>
             \o SortBySimilarity(SubSeq(results, 1, first - 1)
                                 \o SubSeq(results, first + 1, Len(results)))

RECURSIVE CollectResults(_, _, _, _)
\* the loop over the documents: the lists results can hold after it
CollectResults(docs, fs, query, top_k) ==
    IF docs = <<>> THEN {<<>>}
    ELSE LET doc == Head(docs)
             rest == CollectResults(Tail(docs), fs, query, top_k)
         IN  IF fs[doc.vector_path] = NoFile              \* os.path.exists
             THEN rest
             ELSE {own \o others :
                      own \in DocumentResults(doc, fs[doc.vector_path], query, top_k),
                      others \in rest}

\* search_documents: the lists the call can return, each with the number of
\* entries collected before the final slice; a vector file that does not
\* unpickle raises out of the call
search_documents(db, query, top_k) ==
    LET docs == get_documents(db)
        listed == {d \in db.documents : db.files[d.vector_path] # NoFile}
    IN  IF \E d \in listed : ~Loadable(db.files[d.vector_path])
        THEN {[raised |-> TRUE, results |-> <<>>, collected |-> 0]}
        ELSE {[raised |-> FALSE,
               results |-> SubSeq(SortBySimilarity(results), 1,
                                  Min(Len(results), top_k * Len(docs))),
               collected |-> Len(results)]
              : results \in CollectResults(docs, db.files, query, top_k)}

\* the vectors held by the vector files of the stored documents
StoredVectors(db) ==
    UNION {{db.files[d.vector_path].embeddings[i]
            : i \in 1..Len(db.files[d.vector_path].embeddings)}
           : d \in {l \in db.documents : Loadable(db.files[l.vector_path])}}

\* the uploads searched: two names with different stems
SearchFilenames == [stem : Stems, suffix : {".txt"}]

SearchUploads == [file_content : 1..MaxContent, filename : SearchFilenames]

RECURSIVE Uploaded(_, _)
\* the store after process_document has been called on each upload in turn
Uploaded(db, uploads) ==
    IF uploads = <<>> THEN db
    ELSE Uploaded(process_document(db, Head(uploads).file_content,
                                   Head(uploads).filename).db,
                  Tail(uploads))

EmptyDB == [documents |-> {}, chunks |-> {}, concepts |-> {},
            seq |-> [documents |-> 0, chunks |-> 0, concepts |-> 0],
            files |-> [p \in Filenames |-> NoFile]]

\* a store some uploads have filled, and a query with its top_k about to be
\* searched
InitSearch ==
    /\ calls = [w \in Workers |-> Idle]
    /\ ollama_status = FALSE
    /\ quiz_mode = FALSE
    /\ selected_concept = None
    /\ current_quiz = NoQuiz
    /\ current_question = 0
    /\ quiz_answers = <<>>
    /\ quiz_feedback = None
    /\ \E uploads \in SeqsUpTo(SearchUploads, MaxDocId) :
           LET db == Uploaded(EmptyDB, uploads) IN
           /\ documents = db.documents
           /\ chunks = db.chunks
           /\ concepts = db.concepts
           /\ seq = db.seq
           /\ files = db.files
           /\ \E top_k \in 0..MaxTopK, query \in [StoredVectors(db) -> SimTenths] :
                  last = [op |-> "query", query |-> query, top_k |-> top_k,
                          raised |-> FALSE, results |-> <<>>, collected |-> 0]

\* search_documents(query, top_k) called on the store
Search ==
    /\ last.op = "query"
    /\ \E outcome \in search_documents(DB, last.query, last.top_k) :
           last' = [op |-> "search_documents", query |-> last.query,
                    top_k |-> last.top_k,
                    raised |-> outcome.raised, results |-> outcome.results,
                    collected |-> outcome.collected]
    /\ UNCHANGED <<dbVars, sessionVars>>

NextSearch == Search

SpecSearch == InitSearch /\ [][NextSearch]_vars

(***************************************************************************)
(* One LLMService call in steps: the call starts, posts its request to the  *)
(* generation backend, the request ends (an answer, an error or the 60 s    *)
(* timeout), and the call returns.  requests counts the posts of the call.  *)
(***************************************************************************)
RECURSIVE Text(_)
\* a Python str holding the lexemes of a text
Text(toks) ==
    IF toks = <<>> THEN ""
    ELSE IF Len(toks) = 1 THEN toks[1]
    ELSE toks[1] \o " " \o Text(Tail(toks))

\* generate_rag_response: the backend's text is the answer
generate_rag_response(context_chunks, backend) ==
    IF context_chunks = <<>>
    THEN Returned(JStr("I don't have enough information to answer your question. "
                       \o "Please upload some documents first."))
    ELSE Returned(JStr(Text(_make_request(backend))))

ServiceCalls == {"generate_quiz_questions", "extract_concepts", "generate_rag_response"}

\* the reasons requests.post or raise_for_status raise
RequestErrors == {"ConnectionError", "Timeout", "HTTPError"}

NoResponse == [kind |-> "none", text |-> <<>>]

\* texts the backend answers a request with
RequestTexts ==
    {<<>>, <<"words">>, ErrorMessage, Object(<<>>), <<"{", "words", "}">>,
     QuestionsResponse(Array(<<>>)), ConceptsResponse(Array(<<>>)),
     ConceptsResponse(<<"null">>)}

\* a call about to run
Call(op, document_chunks, num_questions) ==
    [op |-> op, pc |-> "called", document_chunks |-> document_chunks,
     num_questions |-> num_questions, requests |-> 0, backend |-> NoResponse,
     cause |-> "", result |-> Returned(JNone)]

\* what the call returns once _make_request is back
Result(call) ==
    CASE call.op = "generate_quiz_questions" ->
             generate_quiz_questions(call.document_chunks, 1, call.num_questions,
                                     call.backend)
      [] call.op = "extract_concepts" ->
             extract_concepts(call.document_chunks, call.backend)
      [] call.op = "generate_rag_response" ->
             generate_rag_response(call.document_chunks, call.backend)

\* variant: a failed request is posted once more
AfterRequestErrorRetries(call, cause) ==
    IF call.requests < 2
    THEN [call EXCEPT !.pc = "requesting", !.cause = cause]
    ELSE [call EXCEPT !.pc = "received", !.backend = BackendFailure, !.cause = cause]

\* except requests.exceptions.RequestException / except Exception: the
\* handler returns the message, _make_request is over
AfterRequestError(call, cause) ==
    [call EXCEPT !.pc = "received", !.backend = BackendFailure, !.cause = cause]

\* the call starts: without chunks it returns at once, else it builds the
\* prompt and enters _make_request
Begin ==
    /\ last.pc = "called"
    /\ last' = IF last.document_chunks = <<>>
               THEN [last EXCEPT !.pc = "returned", !.result = Result(last)]
               ELSE [last EXCEPT !.pc = "requesting"]
    /\ UNCHANGED <<dbVars, sessionVars>>

\* requests.post(url, json=payload, timeout=60)
Post ==
    /\ last.pc = "requesting"
    /\ last' = [last EXCEPT !.pc = "posted", !.requests = @ + 1]
    /\ UNCHANGED <<dbVars, sessionVars>>

\* the backend answers with status 200 and a response text
Answer(text) ==
    /\ last.pc = "posted"
    /\ last' = [last EXCEPT !.pc = "received", !.backend = BackendText(text)]
    /\ UNCHANGED <<dbVars, sessionVars>>

\* the request raises: no connection, the timeout elapsed, an error status
RequestFails(cause) ==
    /\ last.pc = "posted"
    /\ last' = AfterRequestError(last, cause)
    /\ UNCHANGED <<dbVars, sessionVars>>

\* the post is over, one way or the other
Respond ==
    \/ \E text \in RequestTexts : Answer(text)
    \/ \E cause \in RequestErrors : RequestFails(cause)

\* the caller of _make_request parses the text and returns
Finish ==
    /\ last.pc = "received"
    /\ last' = [last EXCEPT !.pc = "returned", !.result = Result(last)]
    /\ UNCHANGED <<dbVars, sessionVars>>

\* the application makes its next call
NewCall ==
    /\ last.pc = "returned"
    /\ \E op \in ServiceCalls, document_chunks \in ParserChunkLists,
          num_questions \in NumQuestions :
           last' = Call(op, document_chunks, num_questions)
    /\ UNCHANGED <<dbVars, sessionVars>>

InitRequest ==
    /\ InitDB
    /\ ollama_status = TRUE
    /\ quiz_mode = FALSE
    /\ selected_concept = None
    /\ current_quiz = NoQuiz
    /\ current_question = 0
    /\ quiz_answers = <<>>
    /\ quiz_feedback = None
    /\ \E op \in ServiceCalls, document_chunks \in ParserChunkLists,
          num_questions \in NumQuestions :
           last = Call(op, document_chunks, num_questions)

NextRequest == Begin \/ Post \/ Respond \/ Finish \/ NewCall

SpecRequest == InitRequest /\ [][NextRequest]_vars

\* the interpreter runs a started call on, and requests.post returns or
\* raises within its timeout; nothing obliges the application to call again
SpecRequestFair ==
    /\ SpecRequest
    /\ WF_vars(Begin)
    /\ WF_vars(Post)
    /\ WF_vars(Respond)
    /\ WF_vars(Finish)

(***************************************************************************)
(* A search_documents call of one session in steps, while another session   *)
(* deletes documents.  calls["w1"] is the search, calls["w2"] the delete.   *)
(***************************************************************************)
\* the search goes on as call
SearchProceeds(call) ==
    /\ calls' = [calls EXCEPT !["w1"] = call]
    /\ last' = [op |-> "search_call", done |-> FALSE, raised |-> FALSE,
                error |-> "", seen |-> {}]

\* the search is over: it returned the chunks of the documents in seen, or
\* error was raised out of it
SearchEnds(error, seen) ==
    /\ calls' = [calls EXCEPT !["w1"] = Idle]
    /\ last' = [op |-> "search_call", done |-> TRUE, raised |-> error # "",
                error |-> error, seen |-> seen]

\* documents = self.get_documents()
SearchList ==
    /\ calls["w1"].pc = "idle"
    /\ SearchProceeds([pc |-> "listed", todo |-> get_documents(DB), seen |-> {}])
    /\ UNCHANGED <<documents, chunks, concepts, seq, files, sessionVars>>

\* for doc in documents: SELECT vector_path ... WHERE id = ?; fetchone()[0]
\* subscripts None when the row is gone; after the loop the list is returned
SearchLookup ==
    /\ calls["w1"].pc = "listed"
    /\ IF calls["w1"].todo = <<>>
       THEN SearchEnds("", calls["w1"].seen)
       ELSE IF DocInfo(DB, Head(calls["w1"].todo).id) = {}
            THEN SearchEnds("TypeError", {})
            ELSE SearchProceeds([calls["w1"] EXCEPT !.pc = "looked_up"])
    /\ UNCHANGED <<documents, chunks, concepts, seq, files, sessionVars>>

\* if vector_path and os.path.exists(vector_path)
SearchExists ==
    /\ calls["w1"].pc = "looked_up"
    /\ IF files[Head(calls["w1"].todo).vector_path] = NoFile
       THEN SearchProceeds([calls["w1"] EXCEPT !.pc = "listed", !.todo = Tail(@)])
       ELSE SearchProceeds([calls["w1"] EXCEPT !.pc = "exists"])
    /\ UNCHANGED <<documents, chunks, concepts, seq, files, sessionVars>>

\* open(vector_path, 'rb'), pickle.load and the ranking of the chunks
SearchLoad ==
    /\ calls["w1"].pc = "exists"
    /\ IF files[Head(calls["w1"].todo).vector_path] = NoFile
       THEN SearchEnds("FileNotFoundError", {})
       ELSE IF ~Loadable(files[Head(calls["w1"].todo).vector_path])
            THEN SearchEnds("UnpicklingError", {})
            ELSE SearchProceeds([calls["w1"] EXCEPT !.pc = "listed", !.todo = Tail(@),
                                     !.seen = @ \cup {Head(calls["w1"].todo).id}])
    /\ UNCHANGED <<documents, chunks, concepts, seq, files, sessionVars>>

\* delete_document up to conn.commit(): the rows are gone, the files are not
DeleteCommit(document_id) ==
    /\ calls["w2"].pc = "idle"
    /\ DocInfo(DB, document_id) # {}
    /\ SetTables(DeleteRows(DB, document_id))
    /\ calls' = [calls EXCEPT !["w2"] = [pc |-> "committed",
                                          doc |-> FirstRow(DocInfo(DB, document_id))]]
    /\ last' = [op |-> "delete_call", done |-> FALSE]
    /\ UNCHANGED sessionVars

\* os.remove(file_path), os.remove(vector_path) and the return
DeleteFiles ==
    /\ calls["w2"].pc \in {"committed", "main_removed"}
    /\ IF calls["w2"].pc = "committed"
       THEN /\ files' = RemoveFile(files, calls["w2"].doc.file_path, FALSE)
            /\ calls' = [calls EXCEPT !["w2"].pc = "main_removed"]
            /\ last' = [op |-> "delete_call", done |-> FALSE]
       ELSE /\ files' = RemoveFile(files, calls["w2"].doc.vector_path, FALSE)
            /\ calls' = [calls EXCEPT !["w2"] = Idle]
            /\ last' = [op |-> "delete_call", done |-> TRUE]
    /\ UNCHANGED <<documents, chunks, concepts, seq, sessionVars>>

\* a store some uploads have filled, no call in progress
InitSearchDelete ==
    /\ calls = [w \in Workers |-> Idle]
    /\ ollama_status = FALSE
    /\ InitSession
    /\ \E uploads \in SeqsUpTo(SearchUploads, MaxDocId) :
           LET db == Uploaded(EmptyDB, uploads) IN
           /\ documents = db.documents
           /\ chunks = db.chunks
           /\ concepts = db.concepts
           /\ seq = db.seq
           /\ files = db.files

NextSearchDelete ==
    \/ SearchList
    \/ SearchLookup
    \/ SearchExists
    \/ SearchLoad
    \/ \E document_id \in 1..MaxDocId : DeleteCommit(document_id)
    \/ DeleteFiles

SpecSearchDelete == InitSearchDelete /\ [][NextSearchDelete]_vars

(***************************************************************************)
(* Two sessions completing a quiz on the shared database: the call of      *)
(* _update_concept_mastery of each session, step by step.  The listing of  *)
(* get_concepts and the UPDATE of update_concept_mastery run on two        *)
(* connections of their own; no transaction spans them.                    *)
(***************************************************************************)
\* what a completed one-question quiz hands over: the answer counted correct
\* or not
SessionAnswers == {[q \in {0} |-> PyBool(TRUE)], [q \in {0} |-> PyBool(FALSE)]}

\* concepts = st.session_state.document_processor.get_concepts()
ReadConcepts(w, concept_name, answers) ==
    /\ calls[w].pc = "idle"
    /\ \E stored_concepts \in get_concepts(DB) :
           calls' = [calls EXCEPT ![w] = [pc |-> "read",
                                          stored_concepts |-> stored_concepts,
                                          concept_name |-> concept_name,
                                          quiz_answers |-> answers]]
    /\ last' = [op |-> "completion_call", worker |-> w, done |-> FALSE]
    /\ UNCHANGED <<documents, chunks, concepts, seq, files, sessionVars>>

\* the loop over the listing read before, and update_concept_mastery with
\* the level and progress computed from it
WriteMastery(w) ==
    /\ calls[w].pc = "read"
    /\ SetTables(_update_concept_mastery(DB, calls[w].stored_concepts,
                                         calls[w].concept_name, calls[w].quiz_answers))
    /\ calls' = [calls EXCEPT ![w].pc = "written"]
    /\ last' = [op |-> "completion_call", worker |-> w, done |-> TRUE]
    /\ UNCHANGED sessionVars

\* both sessions are back in the chat; the next two quizzes can begin
SessionsOver ==
    /\ \A w \in Workers : calls[w].pc = "written"
    /\ calls' = [w \in Workers |-> Idle]
    /\ last' = [op |-> "sessions_over"]
    /\ UNCHANGED <<documents, chunks, concepts, seq, files, sessionVars>>

NextCompletions ==
    \/ \E backend \in LibraryBackends : UploadFile(1, TextFile, backend)
    \/ \E w \in Workers, concept_name \in ConceptNames, answers \in SessionAnswers :
           ReadConcepts(w, concept_name, answers)
    \/ \E w \in Workers : WriteMastery(w)
    \/ SessionsOver

SpecCompletions == InitApp /\ [][NextCompletions]_vars

(***************************************************************************)
(* Properties.                                                             *)
(***************************************************************************)
\* the row of table concepts with this id
ConceptRow(id) == CHOOSE c \in concepts : c.id = id

\* a mastery update found a concept with the given main label
Updated == last.op = "_update_concept_mastery" /\ last.before.id # 0

\* number of answers of the session and number of answers that are correct
SessionTotal == Cardinality(DOMAIN last.quiz_answers)

SessionCorrect == Cardinality({q \in DOMAIN last.quiz_answers : last.quiz_answers[q] = PyBool(TRUE)})

\* C1: when bytes that are not stored yet, with a supported suffix, a
\* non-blank text and a file name no stored document uses, are ingested, the
\* call returns 'processed' with an id no document ever had; a second
\* process_document of the same bytes right after it returns
\* 'already_exists' with that id and changes no row and no file.
C1_IngestTwice ==
    [][ last'.op = "process_document" =>
          /\ ( /\ ~\E d \in documents : d.file_hash = _calculate_file_hash(last'.file_content)
               /\ last'.filename.suffix \in SupportedSuffixes
               /\ last'.file_content # 0
               /\ ~\E d \in documents : d.filename = last'.filename )
             => /\ last'.result.success
                /\ last'.result.status = "processed"
                /\ last'.result.document_id > seq.documents
                /\ \A d \in documents : d.id # last'.result.document_id
                /\ \E d \in documents' : d.id = last'.result.document_id
          /\ ( /\ last.op = "process_document"
               /\ last.result.success
               /\ last.result.status = "processed"
               /\ last.file_content = last'.file_content )
             => /\ last'.result.success
                /\ last'.result.status = "already_exists"
                /\ last'.result.document_id = last.result.document_id
                /\ documents' = documents
                /\ chunks' = chunks
                /\ concepts' = concepts
                /\ files' = files
      ]_vars

\* a second ingest of the bytes just processed, under another file name
C1_Witness ==
    /\ last.op = "process_document"
    /\ last.prior.op = "process_document"
    /\ last.prior.status = "processed"
    /\ last.prior.file_content = last.file_content
    /\ last.result.success
    /\ last.result.status = "already_exists"
    /\ last.result.document_id = last.prior.document_id
    /\ \E d \in documents : d.id = last.result.document_id /\ d.filename # last.filename

\* C2: an all-correct session on a concept below level 3 raises the level by
\* one and sets the progress to 0, whatever the progress was.
C2_LevelUp ==
    (Updated /\ SessionCorrect = SessionTotal /\ last.before.mastery_level < 3)
    => /\ ConceptRow(last.before.id).mastery_level = last.before.mastery_level + 1
       /\ ConceptRow(last.before.id).progress = 0

\* level 1 / progress 50 became level 2 / progress 0
C2_Witness ==
    /\ Updated
    /\ SessionCorrect = SessionTotal
    /\ SessionTotal > 0
    /\ last.before.mastery_level = 1
    /\ last.before.progress = 50
    /\ ConceptRow(last.before.id).mastery_level = 2
    /\ ConceptRow(last.before.id).progress = 0

\* C3: an all-correct session on a concept at level 3 leaves the level at 3
\* and sets the progress to min(300, progress + 50).
C3_TopLevelBonus ==
    (Updated /\ SessionCorrect = SessionTotal /\ last.before.mastery_level = 3)
    => /\ ConceptRow(last.before.id).mastery_level = 3
       /\ ConceptRow(last.before.id).progress = Min(300, last.before.progress + 50)

\* level 3 / progress 280 became progress 300
C3_Witness ==
    /\ Updated
    /\ SessionCorrect = SessionTotal
    /\ last.before.mastery_level = 3
    /\ last.before.progress = 280
    /\ ConceptRow(last.before.id).progress = 300

\* C4: a session with a score of at least 0.7 in which not every answer is
\* correct sets the progress to min(300, progress + 25) and keeps the level.
C4_GoodSession ==
    (Updated /\ SessionCorrect # SessionTotal /\ 10 * SessionCorrect >= 7 * SessionTotal)
    => /\ ConceptRow(last.before.id).mastery_level = last.before.mastery_level
       /\ ConceptRow(last.before.id).progress = Min(300, last.before.progress + 25)

\* level 2 / progress 0 became progress 25 after three correct answers of four
C4_Witness ==
    /\ Updated
    /\ SessionCorrect = 3
    /\ SessionTotal = 4
    /\ last.before.mastery_level = 2
    /\ last.before.progress = 0
    /\ ConceptRow(last.before.id).mastery_level = 2
    /\ ConceptRow(last.before.id).progress = 25

C6_MasteryRange ==
    \A c \in concepts : c.mastery_level \in 0..3 /\ c.progress \in 0..300

\* a concept at the top level with full progress, after a further good session
C6_Witness ==
    /\ Updated
    /\ last.before.mastery_level = 3
    /\ last.before.progress = 300
    /\ SessionCorrect # SessionTotal
    /\ 10 * SessionCorrect >= 7 * SessionTotal
    /\ ConceptRow(last.before.id).progress = 300

AllSelectedCorrect ==
    \A q \in 1..Len(last.questions) :
        /\ (q - 1) \in DOMAIN quiz_answers
        /\ DictGet(last.questions[q], "correct", JNum("0")).t = "int"
        /\ quiz_answers[q - 1] = DictGet(last.questions[q], "correct", JNum("0"))

\* C8: a quiz completed through the quiz flow with the correct option
\* selected on every question raises the quizzed concept's level by one (below
\* level 3) and resets its progress to 0.
C8_QuizFlowLevelUp ==
    ( /\ last.op = "next_question"
      /\ last.completed
      /\ AllSelectedCorrect
      /\ last.before.id # 0
      /\ last.before.mastery_level < 3 )
    => /\ ConceptRow(last.before.id).mastery_level = last.before.mastery_level + 1
       /\ ConceptRow(last.before.id).progress = 0

\* C9: generate_quiz_questions and extract_concepts never raise and always
\* return a list, whatever the backend outcome.
C9_AlwaysList ==
    last.op \in {"generate_quiz_questions", "extract_concepts"}
    => ~last.result.raised /\ last.result.value.t = "list"

\* C10: generate_quiz_questions always returns a list with at least one
\* question.
C10_NonEmptyQuiz ==
    last.op = "generate_quiz_questions"
    => /\ ~last.result.raised
       /\ last.result.value.t = "list"
       /\ Len(last.result.value.items) >= 1

\* the multiple_choice questions of the list the last call returned
ReturnedMultipleChoice ==
    IF last.result.raised \/ last.result.value.t # "list" THEN {}
    ELSE {q \in {last.result.value.items[i] : i \in 1..Len(last.result.value.items)} :
             q.t = "dict" /\ DictGet(q, "type", JNone) = JStr("multiple_choice")}

\* C11: every multiple_choice question generate_quiz_questions returns has
\* exactly 4 options, a correct index in 0..3 and a correct_answer equal to
\* the option at that index, whatever the backend emitted.
C11_FourOptions ==
    last.op = "generate_quiz_questions"
    => \A q \in ReturnedMultipleChoice :
           LET options == DictGet(q, "options", JNone)
               correct == DictGet(q, "correct", JNone)
           IN  /\ options.t = "list"
               /\ Len(options.items) = 4
               /\ correct.t = "int"
               /\ NumVal(correct.s) \in 0..3
               /\ DictGet(q, "correct_answer", JNone) = options.items[NumVal(correct.s) + 1]

\* C12: after delete_document(d) returns success no Document row has id d
\* and no Chunk or Concept row has document_id d.
C12_DeleteRemovesRows ==
    (last.op = "delete_document" /\ last.result.success)
    => /\ ~\E d \in documents : d.id = last.document_id
       /\ ~\E c \in chunks : c.document_id = last.document_id
       /\ ~\E c \in concepts : c.document_id = last.document_id

\* a successful delete that removed chunk rows and concept rows
C12_Witness ==
    /\ last.op = "delete_document"
    /\ last.result.success
    /\ last.result.chunks_deleted >= 1
    /\ last.result.concepts_deleted >= 1

\* C13: every Chunk row and every Concept row refers to a Document row that
\* currently exists, after any sequence of process_document,
\* extract_and_store_concepts and delete_document calls.
C13_NoDanglingReference ==
    /\ \A c \in chunks : \E d \in documents : d.id = c.document_id
    /\ \A c \in concepts : \E d \in documents : d.id = c.document_id

\* the document a delete_document step looks up, in the state before the step
DeleteTarget == {d \in documents : d.id = last'.document_id}

\* C17: delete_document on an id without a Document row returns a failure
\* and leaves every Document, Chunk and Concept row and every file unchanged.
C17_DeleteMissing ==
    [][ (last'.op = "delete_document" /\ DeleteTarget = {})
        => /\ ~last'.result.success
           /\ UNCHANGED <<documents, chunks, concepts, seq, files>> ]_vars

\* a failed delete while other documents, chunks, concepts and files exist
C17_Witness ==
    /\ last.op = "delete_document"
    /\ ~last.result.success
    /\ documents # {} /\ chunks # {} /\ concepts # {}
    /\ \E p \in DOMAIN files : files[p] # NoFile

\* the removal of the raw file or of the vector file failed in this step: the
\* file was there and still is
RemovalFailed ==
    \E d \in DeleteTarget :
        \/ files[d.file_path] # NoFile /\ files'[d.file_path] # NoFile
        \/ files[d.vector_path] # NoFile /\ files'[d.vector_path] # NoFile

\* C18: when removing the raw file or the vector file fails during
\* delete_document, the Document, Chunk and Concept rows are removed all the
\* same and the call reports success.
C18_FileErrorKeepsDeletion ==
    [][ (last'.op = "delete_document" /\ RemovalFailed)
        => /\ last'.result.success
           /\ ~\E d \in documents' : d.id = last'.document_id
           /\ ~\E c \in chunks' : c.document_id = last'.document_id
           /\ ~\E c \in concepts' : c.document_id = last'.document_id ]_vars

\* a successful delete that removed rows and left a file of the document
C18_Witness ==
    /\ last.op = "delete_document"
    /\ last.result.success
    /\ last.result.chunks_deleted >= 1
    /\ last.result.concepts_deleted >= 1
    /\ documents = {}
    /\ \E p \in DOMAIN files : files[p] # NoFile

\* a stored Document has the content hash of the bytes this step ingests
HashStored ==
    \E d \in documents : d.file_hash = _calculate_file_hash(last'.file_content)

\* C16: when process_document finds a Document with the same content hash it
\* adds or changes no Document, Chunk or Concept row and writes no file,
\* whatever the supplied filename.
C16_AlreadyExistsNoEffect ==
    [][ (last'.op = "process_document" /\ HashStored)
        => /\ last'.result.success
           /\ last'.result.status = "already_exists"
           /\ UNCHANGED <<documents, chunks, concepts, seq, files>> ]_vars

\* an already_exists answer to an upload under another name than the stored
\* one, with no file of that name in the upload directory
C16_Witness ==
    /\ last.op = "process_document"
    /\ last.result.success
    /\ last.result.status = "already_exists"
    /\ \E d \in documents : d.id = last.result.document_id /\ d.filename # last.filename
    /\ files[last.filename] = NoFile

\* the upload of this step cannot be extracted: unsupported extension or
\* blank text
Unextractable ==
    \/ last'.filename.suffix \notin SupportedSuffixes
    \/ last'.file_content = 0

\* what C19 promises of a step: a failure result, no Document or Chunk row
\* created, and the bytes still unknown to the hash lookup afterwards
FailsCleanly ==
    /\ ~last'.result.success
    /\ documents' = documents
    /\ chunks' = chunks
    /\ ~\E d \in documents' : d.file_hash = _calculate_file_hash(last'.file_content)

\* C19 as stated: process_document on a file with an unsupported extension or
\* blank text returns a failure result, creates no Document or Chunk row, and
\* a later ingest of the same bytes is not reported as already_exists.
C19_UnextractableFails ==
    [][ (last'.op = "process_document" /\ Unextractable) => FailsCleanly ]_vars

\* C19 amended: the same, for bytes whose content hash no stored Document has
\* (bytes already stored are answered already_exists before any extraction).
C19_UnextractableNewBytesFail ==
    [][ (last'.op = "process_document" /\ Unextractable /\ ~HashStored)
        => FailsCleanly ]_vars

\* a blank upload under a supported name failed while a document is stored
C19_Witness ==
    /\ last.op = "process_document"
    /\ last.file_content = 0
    /\ last.filename.suffix \in SupportedSuffixes
    /\ ~last.result.success
    /\ documents # {}
    /\ files[last.filename] = RawFile(0)

\* C20: for every stored document with k chunks the Chunk rows carry the
\* indexes 0..k-1 exactly once, chunk_count is k, and the persisted vector
\* blob holds k vectors, the i-th being that of the chunk with index i.
C20_DenseChunksAndVectors ==
    \A d \in documents :
        LET rows == {c \in chunks : c.document_id = d.id}
            k == Cardinality(rows)
            blob == files[d.vector_path]
        IN  /\ {c.chunk_index : c \in rows} = 0..(k - 1)
            /\ d.chunk_count = k
            /\ blob.kind = "pickle"
            /\ Len(blob.embeddings) = k
            /\ \A c \in rows : blob.embeddings[c.chunk_index + 1] = encode(<<c.chunk_text>>)[1]

\* C14: process_document calls on identical bytes that overlap never leave
\* two Document rows with the same content hash, nor two sets of Chunk rows
\* for that content.
C14_NoDuplicateIngestion ==
    \A d, e \in documents : d.file_hash = e.file_hash => d = e

\* the vector blob a search loaded for a document is complete: one vector per
\* Chunk row, in the order of the rows
CompleteBlob(o) ==
    /\ Len(o.chunk_texts) = o.chunk_count
    /\ o.chunk_data.chunks = o.chunk_texts
    /\ o.chunk_data.embeddings = encode(o.chunk_texts)

\* C15: a search_documents, get_documents or get_document_chunks call made
\* while a process_document of another document is in progress never sees a
\* half-written document: every Document row it sees has all its Chunk rows
\* and a complete vector blob with one vector per chunk.
C15_NoHalfWrittenDocument ==
    /\ (last.op = "search_documents" /\ last.in_progress)
       => ~last.raised /\ \A o \in last.seen : CompleteBlob(o)
    /\ (last.op = "get_documents" /\ last.in_progress)
       => \A o \in last.seen :
              Cardinality({c \in chunks : c.document_id = o.document_id}) = o.chunk_count
    /\ (last.op = "get_document_chunks" /\ last.in_progress)
       => \A d \in documents :
              d.id = last.document_id => Len(last.chunk_texts) = d.chunk_count


(***************************************************************************)
(* Search properties (SpecSearch).                                          *)
(***************************************************************************)
\* the last step was a search that returned a list
SearchReturned == last.op = "search_documents" /\ ~last.raised

\* the positions of the returned entries of one document
EntriesOf(document_id) ==
    {i \in 1..Len(last.results) : last.results[i].document_id = document_id}

\* C21: every entry a search returns has a similarity strictly above 0.3; a
\* chunk whose similarity is 0.3 or less is never returned.
C21_AboveThreshold ==
    SearchReturned =>
        \A i \in 1..Len(last.results) : last.results[i].similarity > ThresholdTenths

\* a search returned entries and left out a chunk whose similarity is exactly 0.3
C21_Witness ==
    /\ SearchReturned
    /\ last.results # <<>>
    /\ \E d \in documents :
           \E o \in 1..Len(files[d.vector_path].embeddings) :
               /\ last.query[files[d.vector_path].embeddings[o]] = ThresholdTenths
               /\ \A i \in EntriesOf(d.id) : last.results[i].chunk_index # o - 1

\* C22: the entries of a search result are in non-increasing order of
\* similarity across all documents.
C22_SortedDescending ==
    SearchReturned =>
        \A i, j \in 1..Len(last.results) :
            i < j => last.results[i].similarity >= last.results[j].similarity

\* a returned list in which an entry of one document stands between two
\* entries of another, with strictly falling similarities
C22_Witness ==
    /\ SearchReturned
    /\ \E i, j, k \in 1..Len(last.results) :
           /\ i < j /\ j < k
           /\ last.results[i].document_id = last.results[k].document_id
           /\ last.results[i].document_id # last.results[j].document_id
           /\ last.results[i].similarity > last.results[j].similarity
           /\ last.results[j].similarity > last.results[k].similarity

\* C23: a search called with top_k returns at most top_k entries in total,
\* the global top top_k across all documents.
C23_AtMostTopKTotal ==
    SearchReturned => Len(last.results) <= last.top_k

\* C24: a search result holds at most top_k entries of any one document, and
\* they are that document's highest-similarity chunks.
C24_PerDocumentTopK ==
    SearchReturned =>
        \A d \in documents :
            /\ Cardinality(EntriesOf(d.id)) <= last.top_k
            /\ \A i \in EntriesOf(d.id) :
                   \A o \in 1..Len(files[d.vector_path].embeddings) :
                       (\A e \in EntriesOf(d.id) : last.results[e].chunk_index # o - 1)
                           => last.query[files[d.vector_path].embeddings[o]]
                                  <= last.results[i].similarity

\* a document with more chunks above the threshold than top_k, of which
\* exactly top_k were returned and a strictly less similar one was left out
C24_Witness ==
    /\ SearchReturned
    /\ last.top_k >= 1
    /\ \E d \in documents :
           /\ Cardinality(EntriesOf(d.id)) = last.top_k
           /\ \E o \in 1..Len(files[d.vector_path].embeddings) :
                  /\ \A e \in EntriesOf(d.id) : last.results[e].chunk_index # o - 1
                  /\ last.query[files[d.vector_path].embeddings[o]] > ThresholdTenths
                  /\ \A e \in EntriesOf(d.id) :
                         last.query[files[d.vector_path].embeddings[o]]
                             < last.results[e].similarity


(***************************************************************************)
(* Parser properties (SpecParser).                                          *)
(***************************************************************************)
RECURSIVE RemoveTrailingCommas(_)
\* the text without the commas that stand right before a "]" or "}"
RemoveTrailingCommas(toks) ==
    IF toks = <<>> THEN <<>>
    ELSE IF Len(toks) >= 2 /\ toks[1] = "," /\ toks[2] \in {"]", "}"}
         THEN RemoveTrailingCommas(Tail(toks))
         ELSE <<Head(toks)>> \o RemoveTrailingCommas(Tail(toks))

\* what json.loads makes of the JSON-like part of the backend's text
ParsedResponse(text) ==
    LET json_match == re_search(text) IN
    IF json_match.found THEN json_loads(json_match.group) ELSE [ok |-> FALSE, val |-> JNone]

\* the same after the trailing commas have been taken out
RepairedResponse(text) ==
    LET json_match == re_search(text) IN
    IF json_match.found THEN json_loads(RemoveTrailingCommas(json_match.group))
    ELSE [ok |-> FALSE, val |-> JNone]

\* the backend answered a text that holds an object with a list under key
\* once its trailing commas are removed, and that does not parse with them
OnlyTrailingCommas(key) ==
    /\ last.backend.kind = "text"
    /\ ~ParsedResponse(last.backend.text).ok
    /\ RepairedResponse(last.backend.text).ok
    /\ RepairedResponse(last.backend.text).val.t = "dict"
    /\ DictGet(RepairedResponse(last.backend.text).val, key, JNone).t = "list"

\* C25: a backend text whose only defect is a trailing comma before "]" or
\* "}" is repaired and parsed: generate_quiz_questions returns the questions
\* the text contains, not the fallback questions.
C25_TrailingCommaRepaired ==
    ( /\ last.op = "generate_quiz_questions"
      /\ last.document_chunks # <<>>
      /\ OnlyTrailingCommas("questions") )
    => last.result = Returned(DictGet(RepairedResponse(last.backend.text).val,
                                      "questions", JNone))

\* A=0, B=1, C=2, D=3
LetterIndex(letter) ==
    CASE letter = "A" -> 0 [] letter = "B" -> 1 [] letter = "C" -> 2 [] letter = "D" -> 3

\* the question at position i of the backend's list gives its answer as a
\* bare letter that names one of its options
LetterAnswered(questions, i) ==
    LET q == questions.items[i] IN
    /\ q.t = "dict"
    /\ DictGet(q, "type", JNone) = JStr("multiple_choice")
    /\ DictGet(q, "correct_answer", JNone).t = "str"
    /\ DictGet(q, "correct_answer", JNone).s \in {"A", "B", "C", "D"}
    /\ DictGet(q, "options", JNone).t = "list"
    /\ Len(DictGet(q, "options", JNone).items)
           > LetterIndex(DictGet(q, "correct_answer", JNone).s)

\* C26: a multiple_choice question whose correct_answer the backend gave as
\* a bare letter A-D is returned with correct_index equal to the letter's
\* position and correct_answer equal to the option text at that position.
C26_LetterReconciled ==
    ( /\ last.op = "generate_quiz_questions"
      /\ last.document_chunks # <<>>
      /\ last.backend.kind = "text"
      /\ ParsedResponse(last.backend.text).ok
      /\ ParsedResponse(last.backend.text).val.t = "dict"
      /\ DictGet(ParsedResponse(last.backend.text).val, "questions", JNone).t = "list" )
    => LET questions == DictGet(ParsedResponse(last.backend.text).val, "questions", JNone)
       IN  \A i \in 1..Len(questions.items) :
               LetterAnswered(questions, i) =>
                   LET position == LetterIndex(DictGet(questions.items[i],
                                                       "correct_answer", JNone).s)
                   IN  /\ ~last.result.raised
                       /\ last.result.value.t = "list"
                       /\ Len(last.result.value.items) >= i
                       /\ last.result.value.items[i].t = "dict"
                       /\ DictGet(last.result.value.items[i], "correct_index", JNone)
                              = JNum(ToString(position))
                       /\ DictGet(last.result.value.items[i], "correct_answer", JNone)
                              = DictGet(questions.items[i], "options", JNone).items[position + 1]

\* C27: when the backend's text for extract_concepts parses but holds zero
\* concepts, the call returns the fallback concepts built from the chunks,
\* not an empty list.
C27_ZeroConceptsFallBack ==
    ( /\ last.op = "extract_concepts"
      /\ last.document_chunks # <<>>
      /\ last.backend.kind = "text"
      /\ ParsedResponse(last.backend.text).ok
      /\ ParsedResponse(last.backend.text).val.t = "dict"
      /\ DictGet(ParsedResponse(last.backend.text).val, "concepts", JList(<<>>))
             = JList(<<>>) )
    => last.result = Returned(_create_fallback_concepts(last.document_chunks))

\* the call reached the backend (it had chunks to ask about) and the backend
\* answered a text without any JSON-like substring
NoJsonLikeSubstring ==
    /\ last.document_chunks # <<>>
    /\ last.backend.kind = "text"
    /\ ~re_search(last.backend.text).found

\* C28: when the backend's text holds no JSON-like substring, both
\* generators return a non-empty fallback list that depends on the chunks
\* and num_questions only, whatever the text was.
C28_DeterministicFallback ==
    /\ (last.op = "generate_quiz_questions" /\ NoJsonLikeSubstring)
           => /\ last.result = Returned(_create_fallback_questions(last.document_chunks,
                                                                   last.num_questions))
              /\ last.result.value.items # <<>>
    /\ (last.op = "extract_concepts" /\ NoJsonLikeSubstring)
           => /\ last.result = Returned(_create_fallback_concepts(last.document_chunks))
              /\ last.result.value.items # <<>>

\* the part of C28 that holds: without a JSON-like substring the result is
\* the fallback of the chunks and num_questions, whatever the text was
C28_SameFallbackForAnyText ==
    /\ (last.op = "generate_quiz_questions" /\ NoJsonLikeSubstring)
           => last.result = Returned(_create_fallback_questions(last.document_chunks,
                                                                last.num_questions))
    /\ (last.op = "extract_concepts" /\ NoJsonLikeSubstring)
           => last.result = Returned(_create_fallback_concepts(last.document_chunks))


(***************************************************************************)
(* Request properties (SpecRequest, SpecRequestFair).                       *)
(***************************************************************************)
\* the failure outcome the caller of the backend is to receive
BackendUnavailable == [raised |-> TRUE, value |-> JStr("BackendUnavailable")]

\* C29: a network error or timeout of the backend request reaches the
\* caller as a BackendUnavailable failure, never as a value computed from
\* the error as if it were the backend's response text.
C29_FailureSurfaced ==
    (last.pc = "returned" /\ last.backend = BackendFailure)
        => last.result = BackendUnavailable

\* C30: every call of generate_quiz_questions, extract_concepts or
\* generate_rag_response posts at most one request to the backend and then
\* returns, whether the backend answers, fails or times out.
C30_OneRequestThenReturns ==
    /\ [](last.requests <= 1)
    /\ (last.pc = "called") ~> (last.pc = "returned")

\* a call that returned after its single request timed out
C30_Witness ==
    /\ last.pc = "returned"
    /\ last.requests = 1
    /\ last.cause = "Timeout"
    /\ ~last.result.raised


(***************************************************************************)
(* Mastery update: no match, frame (SpecMastery).                           *)
(***************************************************************************)
\* the step is a call of _update_concept_mastery for a label no listed
\* concept has
UpdateWithoutMatch ==
    last'.op = "_update_concept_mastery" /\ last'.before = NoConcept

\* C31: a mastery update for a label that matches no stored Concept changes
\* no Concept row, does not raise, and tells its caller that nothing was
\* updated.
C31_NoMatchReported ==
    [][UpdateWithoutMatch =>
           /\ concepts' = concepts
           /\ (last'.returned # None \/ last'.printed # <<>>)]_vars

\* the part of C31 that holds: without a match no Concept row changes
C31_NoMatchChangesNothing ==
    [][UpdateWithoutMatch => concepts' = concepts]_vars


(***************************************************************************)
(* Quiz session flow (SpecQuiz).                                            *)
(***************************************************************************)
\* the step completes a quiz: Next Question past the last question
CompletesQuiz == last'.op = "next_question" /\ last'.completed

\* C32: mastery is evaluated once per completed quiz session: the update
\* runs once, in the step that advances past the last question, and no
\* other step of the session flow (answering, moving to the next question,
\* Back to Chat, re-entering quiz mode) changes a stored concept.
C32_EvaluatedAtCompletionOnly ==
    [][ /\ ~CompletesQuiz => \A c \in concepts : c \in concepts'
        /\ CompletesQuiz =>
               \E stored_concepts \in get_concepts(DB) :
                   concepts' = _update_concept_mastery(DB, stored_concepts, last'.concept,
                                                       quiz_answers).concepts ]_vars

\* a quiz with an answer given was abandoned through Back to Chat while the
\* ledger holds a concept
C32_Witness ==
    /\ last.op = "back_to_chat"
    /\ last.abandoned
    /\ last.answered >= 1
    /\ concepts # {}


(***************************************************************************)
(* Store: vector files and frames (SpecStore, SpecLibrary).                 *)
(***************************************************************************)
\* C33: after any sequence of process_document and delete_document calls,
\* failed ingests under a stored file name and ingests sharing a name stem
\* included, the vector blob of every stored Document holds exactly the
\* chunk texts of that document's Chunk rows, in the same order.
C33_BlobHoldsChunkRows ==
    \A d \in documents :
        /\ files[d.vector_path].kind = "pickle"
        /\ files[d.vector_path].chunks = get_document_chunks(DB, d.id)


\* the step is a delete_document call that reported success
Deletes == last'.op = "delete_document" /\ last'.result.success

\* C34: delete_document(d) leaves every other document intact: its Document
\* row, Chunk rows, Concept rows, raw file and vector file are unchanged, so
\* a search finds for it what it found before.
C34_DeleteKeepsOthers ==
    [][Deletes =>
           \A e \in documents :
               e.id # last'.document_id =>
                   /\ e \in documents'
                   /\ {c \in chunks' : c.document_id = e.id}
                          = {c \in chunks : c.document_id = e.id}
                   /\ {c \in concepts' : c.document_id = e.id}
                          = {c \in concepts : c.document_id = e.id}
                   /\ files'[e.file_path] = files[e.file_path]
                   /\ files'[e.vector_path] = files[e.vector_path]]_vars


(***************************************************************************)
(* Search: global ranking (SpecSearch).                                     *)
(***************************************************************************)
\* every chunk of every stored document whose similarity to the query is
\* above the threshold, as (document, position, similarity)
RelevantChunks ==
    UNION {{[document_id |-> d.id, chunk_index |-> o - 1,
             similarity |-> last.query[files[d.vector_path].embeddings[o]]]
            : o \in {p \in 1..Len(files[d.vector_path].embeddings) :
                        last.query[files[d.vector_path].embeddings[p]] > ThresholdTenths}}
           : d \in {l \in documents : Loadable(files[l.vector_path])}}

\* the first min(top_k, n) entries of the returned list, as (document,
\* position, similarity)
ResultHead ==
    {[document_id |-> last.results[i].document_id,
      chunk_index |-> last.results[i].chunk_index,
      similarity |-> last.results[i].similarity]
     : i \in 1..Min(last.top_k, Len(last.results))}

\* the head of the result is made of the top_k most similar relevant chunks
\* of the whole store
HeadIsGlobalTopK ==
    /\ ResultHead \subseteq RelevantChunks
    /\ Cardinality(ResultHead) = Min(last.top_k, Cardinality(RelevantChunks))
    /\ \A r \in RelevantChunks \ ResultHead :
           \A h \in ResultHead : r.similarity <= h.similarity

\* C35 as stated: the first min(top_k, n) entries of a search result carry
\* the top_k largest similarities above 0.3 among all chunks of all
\* documents, and the final slice to top_k * document_count never removes an
\* entry.
C35_GlobalTopKNoSliceLoss ==
    SearchReturned => HeadIsGlobalTopK /\ Len(last.results) = last.collected

\* C35, amended: the same, the slice removing no entry when top_k >= 1.
C35_GlobalTopKSliceKeepsAll ==
    SearchReturned =>
        /\ HeadIsGlobalTopK
        /\ last.top_k >= 1 => Len(last.results) = last.collected

\* a search over two documents that returned more than top_k entries while
\* the per-document cap left a relevant chunk out
C35_Witness ==
    /\ SearchReturned
    /\ last.top_k >= 1
    /\ Len(last.results) > last.top_k
    /\ \E i, j \in 1..Len(last.results) :
           last.results[i].document_id # last.results[j].document_id
    /\ Cardinality(RelevantChunks) > Len(last.results)


(***************************************************************************)
(* Mastery update: frame (SpecMastery).                                     *)
(***************************************************************************)
\* the step is a call of _update_concept_mastery that found a concept
UpdateWithMatch ==
    last'.op = "_update_concept_mastery" /\ last'.before.id # 0

\* C36: a mastery update for a main-concept label changes one Concept row,
\* the first with that label in (main, sub) order, and leaves every other
\* Concept unchanged, other concepts with the same main label included.
C36_UpdatesFirstMatchOnly ==
    [][UpdateWithMatch =>
           /\ \E c \in concepts :
                  /\ c.id = last'.before.id
                  /\ c.main = last'.concept_name
                  /\ \A o \in concepts :
                         (o.document_id # 0 /\ o.main = c.main) => ~Before(o, c)
           /\ \A c \in concepts : c.id # last'.before.id => c \in concepts'
           /\ {c.id : c \in concepts'} = {c.id : c \in concepts}]_vars

\* an update changed a concept although an older concept of the same main
\* label, later in (main, sub) order, is stored; that one is unchanged
C36_Witness ==
    /\ Updated
    /\ \E c, o \in concepts :
           /\ c.id = last.before.id
           /\ o.main = c.main
           /\ o.id < c.id
           /\ Before(c, o)
           /\ o.mastery_level = 0 /\ o.progress = 0
           /\ c.mastery_level > 0


(***************************************************************************)
(* Search beside a concurrent delete (SpecSearchDelete).                    *)
(***************************************************************************)
\* C37: a search_documents call interleaved with a concurrent
\* delete_document completes without an error; a document deleted between
\* the listing and the lookup of its vector path is skipped.
C37_SearchSurvivesDelete ==
    (last.op = "search_call" /\ last.done) => ~last.raised


(***************************************************************************)
(* Two concurrent quiz completions (SpecCompletions).                       *)
(***************************************************************************)
\* both sessions have written, for the same concept, from the same reading
OverlappingCompletions ==
    /\ \A w \in Workers : calls[w].pc = "written"
    /\ calls["w1"].concept_name = calls["w2"].concept_name
    /\ calls["w1"].stored_concepts = calls["w2"].stored_concepts
    /\ Picked(calls["w1"].stored_concepts, calls["w1"].concept_name).id # 0

\* level and progress of the concept after the update of first, then the
\* update of second, one after the other, from the row both sessions read
SerialOutcome(first, second) ==
    LET concept == Picked(calls[first].stored_concepts, calls[first].concept_name)
        mid == NewMastery(concept, calls[first].quiz_answers)
        between == [id |-> concept.id, mastery_level |-> mid.mastery_level,
                    progress |-> mid.progress]
        new == NewMastery(between, calls[second].quiz_answers)
    IN  [id |-> concept.id, mastery_level |-> new.mastery_level,
         progress |-> new.progress]

QuizInProgress == quiz_mode /\ current_quiz # NoQuiz

\* the step is a press of Next Question on the last question of the quiz
LeavesLastQuestion ==
    /\ last'.op = "next_question"
    /\ QuestionShown
    /\ current_question + 1 >= Len(current_quiz.questions.items)

\* current_question indexes the question list of the current quiz
IndexInQuestionList ==
    /\ current_quiz.questions.t = "list"
    /\ current_question \in 0..(Len(current_quiz.questions.items) - 1)

\* C39: whenever quiz mode is on and a current quiz is set,
\* current_question is a valid index into the quiz's question list.
C39_IndexValid ==
    QuizInProgress => IndexInQuestionList

\* C39, the quizzes that hold a question list: the index is valid.
C39_IndexValidInLists ==
    (QuizInProgress /\ current_quiz.questions.t = "list") => IndexInQuestionList

\* C39, second half: advancing past the last question clears the quiz and
\* leaves quiz mode in the same step.
C39_LastQuestionClearsQuiz ==
    [][LeavesLastQuestion => (current_quiz' = NoQuiz /\ ~quiz_mode')]_vars

====
